---- MODULE Spec2Model ----
(***************************************************************************)
(* RecruitPulse service worker (background.js): the queue orchestrator,    *)
(* its message router, the single-slot pending resolvers, and the          *)
(* collaborators it drives (dashboard content script, tabs, storage,       *)
(* backend).                                                               *)
(***************************************************************************)
EXTENDS Integers, Sequences, FiniteSets, TLC

\* ------------------------------------------------------------------ bounds
MaxHandlers == 2   \* invocations of handleStartQueue that can be alive at once
MaxStarts == 2     \* START_QUEUE messages the popup sends
MaxRuns == 1       \* of these, the ones sent while no run is active
MaxItems == 2      \* rows the dashboard can enumerate
MaxLate == 1       \* answers the content script still owes for timed-out requests
MaxBackend == 2    \* records the backend returns to the phase-2 query
MaxTitleLen == 3   \* characters of a title, MaxCompanyLen of a company,
MaxCompanyLen == 2 \* in the specification of the job id
MaxPad == 1        \* blanks added on each side of a title or company
MaxExtractions == 2
MaxWaits == 2
MaxWaitTabs == 2 \* extractions of the detail panel that can overlap on the page

Handlers == 1..MaxHandlers

\* constants.js
MAX_RETRIES == 3
MAX_POLLS == 20
RETRY_BASE_DELAY_MS == 1000

\* ------------------------------------------------------------------ strings
\* Titles and companies are sequences of char codes, the other texts are
\* opaque strings.
Whitespace == {9, 10, 13, 32}

RECURSIVE trimStart(_)
trimStart(s) ==
    IF s # <<>> /\ Head(s) \in Whitespace THEN trimStart(Tail(s)) ELSE s

RECURSIVE trimEnd(_)
trimEnd(s) ==
    IF s # <<>> /\ s[Len(s)] \in Whitespace
    THEN trimEnd(SubSeq(s, 1, Len(s) - 1)) ELSE s

trim(s) == trimEnd(trimStart(s))

\* a normalisation that keeps the letter case
keepCase(s) == s

toLowerCase(s) ==
    [k \in 1..Len(s) |-> IF s[k] >= 65 /\ s[k] <= 90 THEN s[k] + 32 ELSE s[k]]

\* One round of  hash = (hash << 5) - hash + char; hash |= 0  on the 32-bit
\* word <<hi, lo>> (two 16-bit halves).
hashStep(h, char) ==
    LET lo == h[2] * 31 + char
        hi == h[1] * 31 + (lo \div 65536)
    IN  <<hi % 65536, lo % 65536>>

RECURSIVE hashFrom(_, _)
hashFrom(h, s) ==
    IF s = <<>> THEN h ELSE hashFrom(hashStep(h, Head(s)), Tail(s))

\* Math.abs of the signed reading of the 32-bit word.
abs32(h) ==
    IF h[1] < 32768 THEN h
    ELSE <<(65535 - h[1] + (IF h[2] = 0 THEN 1 ELSE 0)) % 65536,
           (65536 - h[2]) % 65536>>

generateJobId(title, company) ==
    LET raw == toLowerCase(trim(title)) \o <<58, 58>> \o toLowerCase(trim(company))
    IN  abs32(hashFrom(<<0, 0>>, raw))

\* `job_${i}` and 'unknown', the fallbacks of runQueue.
jobFallbackTitle(i) == <<106, 111, 98, 95, 48 + i>>
unknownCompany == <<117, 110, 107, 110, 111, 119, 110>>

\* ------------------------------------------------------------------ data
NoTabId == 0
DashTab == 1

Row(k) == [index |-> k - 1, status |-> "New", title |-> <<84, 48 + k>>, company |-> <<67>>]
NoRow == [index |-> 0, status |-> "", title |-> <<>>, company |-> <<>>]
JobLists == {[k \in 1..n |-> Row(k)] : n \in 0..MaxItems}

NoReq == [kind |-> "none", run |-> 0, item |-> 0]
NoTab == [run |-> 0, item |-> 0]
NoId == <<0, 0>>

\* What handleJobClick can push back: the parsed popup, with or without a
\* "View Full Post" URL, or { error }.
PopupResults ==
    { [error |-> FALSE, title |-> <<>>, company |-> <<>>, viewFullPostUrl |-> "https://x"],
      [error |-> FALSE, title |-> <<>>, company |-> <<>>, viewFullPostUrl |-> ""],
      [error |-> TRUE, title |-> <<>>, company |-> <<>>, viewFullPostUrl |-> ""] }
\* Detail data whose title and company are what extractFromPopup found in
\* the panel, or its defaults 'Unknown Title' (U) and 'Confidential' (F).
PanelResults ==
    { [error |-> FALSE, title |-> <<80>>, company |-> <<67>>, viewFullPostUrl |-> "https://x"],
      [error |-> FALSE, title |-> <<84, 49>>, company |-> <<67>>, viewFullPostUrl |-> "https://x"],
      [error |-> FALSE, title |-> <<85>>, company |-> <<70>>, viewFullPostUrl |-> "https://x"] }
NoPopup == [error |-> FALSE, title |-> <<>>, company |-> <<>>, viewFullPostUrl |-> ""]

\* What scrapeExternalJobPage can return; the first is the initial value of
\* externalData in processJobFlow.
EmptyExternal == [fullDescription |-> "", applyEmail |-> "", location |-> "", experience |-> ""]
ExternalResults ==
    { [fullDescription |-> "desc", applyEmail |-> "a@b.co", location |-> "loc", experience |-> "exp"],
      [fullDescription |-> "desc", applyEmail |-> "", location |-> "", experience |-> ""] }

EmptyEmail == [error |-> FALSE, emailSubject |-> "", emailBody |-> ""]
EmailResults ==
    { [error |-> FALSE, emailSubject |-> "subj", emailBody |-> "body"],
      [error |-> TRUE, emailSubject |-> "", emailBody |-> ""] }

NoPayload ==
    [jobId |-> NoId, title |-> <<>>, company |-> <<>>, viewFullPostUrl |-> "",
     fullDescription |-> "", applyEmail |-> "", location |-> "", experience |-> "",
     emailSubject |-> "", emailBody |-> "", jdResumeBuilt |-> FALSE]

\* Lists GET /api/jobs can answer with.
BackendJob(k, built) == [jobId |-> <<0, k>>, jdResumeBuilt |-> built]
BackendLists ==
    UNION {{[k \in 1..n |-> BackendJob(k, b[k])] : b \in [1..n -> BOOLEAN]} : n \in 0..MaxBackend}

EmptyStats == [success |-> 0, failed |-> 0]

\* chrome.storage.local when the service worker starts: empty, or what an
\* earlier session left (the first row scraped and counted).
OtherPayload ==
    [NoPayload EXCEPT !.jobId = generateJobId(<<79>>, <<67>>),
                      !.title = <<79>>, !.company = <<67>>,
                      !.viewFullPostUrl = "https://other", !.applyEmail = "not-provided"]
OldPayload ==
    [NoPayload EXCEPT !.jobId = generateJobId(Row(1).title, Row(1).company),
                      !.title = Row(1).title, !.company = Row(1).company,
                      !.viewFullPostUrl = "https://old", !.applyEmail = "not-provided"]
InitialStorages ==
    { [queueActive |-> FALSE, scrapedJobs |-> <<>>, processedIds |-> <<>>, stats |-> EmptyStats],
      [queueActive |-> FALSE, scrapedJobs |-> <<OldPayload>>,
       processedIds |-> <<OldPayload.jobId>>, stats |-> [success |-> 1, failed |-> 0]],
      [queueActive |-> FALSE, scrapedJobs |-> <<OldPayload, OtherPayload>>,
       processedIds |-> <<OldPayload.jobId, OtherPayload.jobId>>,
       stats |-> [success |-> 2, failed |-> 0]] }

\* The dashboard document as loaded: window.open, location.assign and
\* location.replace are the page's own functions, no backup is stored, body
\* has no data-rp-url.  forgeable: an assignment to location.assign or
\* location.replace takes effect in this browser.  pending: the navigation
\* calls the page's click handlers have still to make.  last, row, twice: the
\* last script injected, the prepares since the last cleanup, and whether
\* two prepares ran with no cleanup between them.  stale: the extractions
\* whose latest prepare came after the URL now in data-rp-url was written.
FreshPage(forgeable) ==
    [open |-> "orig", assign |-> "orig", replace |-> "orig", attr |-> "absent",
     origOpen |-> "undefined", origAssign |-> "undefined", origReplace |-> "undefined",
     forgeable |-> forgeable, pending |-> {}, last |-> "none", row |-> 0, twice |-> FALSE,
     stale |-> {}]

\* The navigation calls a click handler of the page can make.
Calls == [fn : {"open", "assign", "replace"}, url : {"https://post", "/relative"}]

\* An extractFromPopup call that has not started.
Extractions == 1..MaxExtractions
IdleExtraction ==
    [pc |-> "idle", stage |-> "none", polls |-> 0, got |-> "", viewFullPostUrl |-> "",
     prepares |-> 0, cleanups |-> 0, erased |-> FALSE]

\* A handleStartQueue invocation that is not running.
IdleHandler ==
    [pc |-> "idle", run |-> 0, clearHistory |-> FALSE, enumFailed |-> FALSE,
     stopSeen |-> FALSE, stopInItem |-> FALSE, i |-> 0, rawJob |-> NoRow, jobId |-> NoId,
     req |-> NoReq, by |-> NoReq, popupData |-> NoPopup, err |-> "", tab |-> NoTab,
     externalData |-> EmptyExternal, auxEmpty |-> FALSE, emailData |-> EmptyEmail, emailFailed |-> FALSE,
     payload |-> NoPayload, saved |-> FALSE, attempt |-> 0, delays |-> <<>>,
     apiResult |-> "none", enumerated |-> <<>>, ended |-> 0,
     recordsAtStart |-> 0, unsaved |-> 0, stopAtPhase1End |-> FALSE, pendingJobs |-> <<>>, j |-> 0,
     fetched |-> <<>>, builtOk |-> {}, resent |-> {}, reloads |-> 0,
     statsAtStart |-> EmptyStats]

\* The tabs waitForTabComplete can be called for, and its calls.
WaitTabs == 1..MaxWaitTabs
Waits == 1..MaxWaits

\* A waitForTabComplete call that has not been made.
IdleWait ==
    [tabId |-> 0, listener |-> FALSE, timeout |-> "none", get |-> "none",
     outcome |-> "none", calls |-> <<>>, signalled |-> FALSE, reported |-> FALSE]

\* The requests processJobFlow sends to dashboard.js: one CLICK_JOB_ACTION and
\* one EXTRACT_EMAIL_DATA for each row.
Requests == 1..(2 * MaxItems)
ReqId(k, kind) == 2 * k + (IF kind = "popupData" THEN 1 ELSE 2)
KindOf(n) == IF n % 2 = 1 THEN "popupData" ELSE "emailData"

\* A request dashboard.js has not received.
IdleRequest == [pc |-> "idle", sent |-> 0]

\* ------------------------------------------------------------------ state
VARIABLES
    queue, isRunning, stopRequested, dashboardTabId,   \* background.js globals
    processedCount, failedCount, isProcessing,
    pendingResolvers,   \* _pendingResolvers: kind -> the request whose resolver sits in the slot
    hs,                 \* the handleStartQueue invocations and their locals
    storage,            \* chrome.storage.local
    timers,             \* armed setTimeout handles of getPopupData / getEmailData
    wreq,               \* requests the content script has received and not answered
    jcMsgs,             \* JOBS_COLLECTED messages on their way to the service worker
    openTabs,           \* auxiliary tabs that are open
    hostUrl,            \* location of the dashboard tab
    bcast,              \* status updates broadcast by the last step
    nStart, runNo,      \* START_QUEUE messages received, runs accepted
    page,               \* the dashboard document: bindings, backups, data-rp-url
    ext,                \* the extractFromPopup calls of the content script
    tabStatus,          \* chrome.tabs: the status of every tab
    waits,              \* the waitForTabComplete calls: listener, timer, promise
    dialogs,            \* the dashboard document: rows whose detail panel is open
    onMessage,          \* dashboard.js: the handler of each request it received
    inflight,           \* JOB_POPUP_DATA / EMAIL_DATA messages sent and not yet delivered
    flow                \* the requests processJobFlow makes to the dashboard: item, position

globals == <<queue, isRunning, stopRequested, dashboardTabId, processedCount, failedCount, isProcessing>>
env == <<timers, wreq, jcMsgs, openTabs>>
vars == <<globals, pendingResolvers, hs, storage, env, hostUrl, bcast, nStart, runNo, page, ext, tabStatus, waits, dialogs, onMessage, inflight, flow>>

Init ==
    /\ queue = <<>>
    /\ isRunning = FALSE
    /\ stopRequested = FALSE
    /\ dashboardTabId = NoTabId
    /\ processedCount = 0
    /\ failedCount = 0
    /\ isProcessing = FALSE
    /\ pendingResolvers = [popupData |-> NoReq, emailData |-> NoReq]
    /\ hs = [h \in Handlers |-> IdleHandler]
    /\ storage \in InitialStorages
    /\ timers = {}
    /\ wreq = {}
    /\ jcMsgs = {}
    /\ openTabs = {}
    /\ hostUrl = "dashboard"
    /\ bcast = <<>>
    /\ nStart = 0
    /\ runNo = 0
    /\ page = FreshPage(TRUE)
    /\ ext = [a \in Extractions |-> IdleExtraction]
    /\ tabStatus = [t \in WaitTabs |-> "complete"]
    /\ waits = [w \in Waits |-> IdleWait]
    /\ dialogs = {}
    /\ onMessage = [n \in Requests |-> IdleRequest]
    /\ inflight = {}
    /\ flow = [i |-> 0, pc |-> "start"]


\* ------------------------------------------------------------- sync blocks
\* A synchronous block of the service worker is a function on contexts: the
\* globals, the storage, the handler's locals and the broadcasts it has sent.
Ctx(h) ==
    [hr |-> hs[h], st |-> storage, bc |-> <<>>, ok |-> processedCount, ko |-> failedCount,
     lock |-> isProcessing, running |-> isRunning, stop |-> stopRequested,
     tabId |-> dashboardTabId, q |-> queue, url |-> hostUrl]

\* The block ends (await, return or throw): its effects become the state.
Commit(h, c) ==
    /\ hs' = [hs EXCEPT ![h] = c.hr]
    /\ storage' = c.st
    /\ bcast' = c.bc
    /\ processedCount' = c.ok
    /\ failedCount' = c.ko
    /\ isProcessing' = c.lock
    /\ isRunning' = c.running
    /\ stopRequested' = c.stop
    /\ dashboardTabId' = c.tabId
    /\ queue' = c.q
    /\ hostUrl' = c.url

At(c, pc) == [c EXCEPT !.hr.pc = pc]

broadcastStatus(c, tag, level) ==
    [c EXCEPT !.bc = Append(@, [level |-> level, tag |-> tag])]

\* finishQueue without  stopRequested = false
finishQueueKeepsStop(c) ==
    [c EXCEPT !.url = IF c.tabId # NoTabId THEN "dashboard" ELSE @,
              !.running = FALSE,
              !.tabId = NoTabId,
              !.q = <<>>,
              !.st.queueActive = FALSE,
              !.hr = IdleHandler]

\* finishQueue(); every caller returns right after it
finishQueue(c) ==
    [c EXCEPT !.url = IF c.tabId # NoTabId THEN "dashboard" ELSE @,
              !.running = FALSE,
              !.stop = FALSE,
              !.tabId = NoTabId,
              !.q = <<>>,
              !.st.queueActive = FALSE,
              !.hr = IdleHandler]

\* throw new Error(...) in processJobFlow
throw(c, err) == [c EXCEPT !.hr.err = err]

\* An exception that nothing catches: the invocation ends, nothing is reset.
Thrown(c) == [c EXCEPT !.hr.pc = "thrown"]

\* a loop that never looks at stopRequested
NeverBreak(c) == FALSE

\* isProcessing released on the success path only (no finally)
releaseOnSuccessOnly(c, threw) == [c EXCEPT !.lock = threw, !.hr.ended = @ + 1]

\* a catch block that forgets  failedCount++
runQueueCatchNoCount(c) ==
    [c EXCEPT !.lock = FALSE, !.hr.pc = "stats_failed"]

\* a loop that advances by two
nextIndexSkips(k) == k + 2

\* i++  of the runQueue loop
nextIndex(k) == k + 1

\* a success that is not counted
countSuccessNever(c) == c

\* processedCount++
countSuccess(c) == [c EXCEPT !.ok = @ + 1]

\* if (stopRequested) break;   at the top of the runQueue loop
ShouldBreak(c) == c.stop

\* finally { isProcessing = false; }   of processSingleJob
processSingleJobFinally(c, threw) == [c EXCEPT !.lock = FALSE, !.hr.ended = @ + 1]

\* processJobFlow threw: the finally of processSingleJob, then the catch
\* block of runQueue up to  await updateStats('failed')
runQueueCatch(c) ==
    At([processSingleJobFinally(c, TRUE) EXCEPT !.ko = @ + 1], "stats_failed")

ClearItemLocals(hr) ==
    [hr EXCEPT !.rawJob = NoRow, !.jobId = NoId, !.req = NoReq, !.by = NoReq,
               !.popupData = NoPopup, !.err = "", !.tab = NoTab, !.externalData = EmptyExternal,
               !.auxEmpty = FALSE, !.emailData = EmptyEmail, !.emailFailed = FALSE, !.payload = NoPayload,
               !.saved = FALSE, !.attempt = 0, !.delays = <<>>]

\* the tail of runQueue: phase 1 summary, phase 2 unless stopped, finishQueue
postLoop(c) ==
    LET c1 == broadcastStatus([c EXCEPT !.hr.stopAtPhase1End = c.stop],
                              "phase1_complete", "success")
    IN  IF ~c1.stop
        THEN At(broadcastStatus(c1, "phase2_start", "info"), "p2_pause")
        ELSE finishQueue(c1)

RECURSIVE loopTop(_, _)

\* an iteration that sleeps after every item
afterItemAlwaysDelay(c, k) ==
    At(broadcastStatus([c EXCEPT !.hr = ClearItemLocals(@)], "waiting", "info"), "delay")

\* the end of one iteration of runQueue: the inter-item delay, or the next
\* iteration at once
afterItem(c, k) ==
    LET c1 == [c EXCEPT !.hr = ClearItemLocals(@)]
    IN  IF k < Len(c1.q) - 1 /\ ~c1.stop
        THEN At(broadcastStatus(c1, "waiting", "info"), "delay")
        ELSE loopTop(c1, nextIndex(k))

\* generateJobId(rawJob.title || `job_${i}`, rawJob.company || 'unknown')
jobIdOf(rawJob, k) ==
    generateJobId(IF rawJob.title # <<>> THEN rawJob.title ELSE jobFallbackTitle(k),
                  IF rawJob.company # <<>> THEN rawJob.company ELSE unknownCompany)

\* processSingleJob and processJobFlow up to the first await
processSingleJob(c, k) ==
    LET rawJob == c.q[k + 1]
        jobId == jobIdOf(rawJob, k)
        c1 == broadcastStatus([c EXCEPT !.hr.i = k], "processing", "info")
    IN  IF c1.lock
        THEN \* if (isProcessing) return;  and runQueue counts a success
             afterItem(broadcastStatus(countSuccess(c1), "done", "success"), k)
        ELSE At(broadcastStatus(
                    [c1 EXCEPT !.lock = TRUE, !.hr.rawJob = rawJob, !.hr.jobId = jobId],
                    "simulating", "info"), "sim")

\* a loop with the session dedup check: a row whose id is in processedIds is
\* skipped
loopTopSkipsProcessed(c, k) ==
    IF k < Len(c.q)
    THEN IF ShouldBreak(c)
         THEN postLoop(broadcastStatus(c, "stopped", "warn"))
         ELSE IF \E n \in 1..Len(c.st.processedIds) :
                    c.st.processedIds[n] = jobIdOf(c.q[k + 1], k)
              THEN afterItem(broadcastStatus(c, "skipping", "warn"), k)
              ELSE processSingleJob(c, k)
    ELSE postLoop(c)

\* for (let i = 0; i < queue.length; i++) { if (stopRequested) break; ... }
loopTop(c, k) ==
    IF k < Len(c.q)
    THEN IF ShouldBreak(c)
         THEN postLoop(broadcastStatus(c, "stopped", "warn"))
         ELSE processSingleJob(c, k)
    ELSE postLoop(c)

\* for (let i = 0; i < pendingJobs.length; i++) { if (stopRequested) break; ... }
p2LoopTop(c, j) ==
    IF j < Len(c.hr.pendingJobs) /\ ~c.stop
    THEN At(broadcastStatus([c EXCEPT !.hr.j = j], "building", "info"), "p2_build")
    ELSE finishQueue(broadcastStatus(c, "phase2_complete", "complete"))

\* a loop that goes to the next record without reloading the page
p2AfterNoReload(c, j) ==
    p2LoopTop([c EXCEPT !.hr.attempt = 0, !.hr.delays = <<>>, !.hr.apiResult = "none"], j + 1)

\* the end of one iteration of the phase-2 loop
p2After(c, j) ==
    LET c1 == [c EXCEPT !.hr.attempt = 0, !.hr.delays = <<>>, !.hr.apiResult = "none"]
    IN  IF j < Len(c1.hr.pendingJobs) - 1 /\ ~c1.stop
        THEN At(broadcastStatus(c1, "waiting_reload", "info"), "p2_wait")
        ELSE p2LoopTop(c1, j + 1)


\* ---------------------------------------------------------- message router
\* a start handler without the isRunning guard
CanStartAlways(running) == TRUE

\* if (isRunning) { ...ignoring start command; return; }
CanStart(running) == ~running

envQuiet == UNCHANGED <<pendingResolvers, timers, wreq, jcMsgs, openTabs>>

\* case MSG.START_QUEUE: handleStartQueue(msg.options || {}), up to the
\* await of chrome.storage.local.set
\* a start that leaves stopRequested as it finds it
resetRunKeepsStop(c) == [c EXCEPT !.running = TRUE, !.ok = 0, !.ko = 0]

\* isRunning = true; stopRequested = false; processedCount = 0; failedCount = 0;
resetRun(c) == [c EXCEPT !.running = TRUE, !.stop = FALSE, !.ok = 0, !.ko = 0]

handleStartQueue(clearHistory) ==
    /\ nStart < MaxStarts
    /\ isRunning \/ runNo < MaxRuns
    /\ nStart' = nStart + 1
    /\ UNCHANGED <<page, ext, tabStatus, waits, dialogs, onMessage, inflight, flow>>
    /\ IF CanStart(isRunning) /\ \E h \in Handlers : hs[h].pc = "idle"
       THEN LET h == CHOOSE x \in Handlers :
                        /\ hs[x].pc = "idle"
                        /\ \A y \in Handlers : hs[y].pc = "idle" => x <= y
            IN  /\ Commit(h, [resetRun(Ctx(h)) EXCEPT
                        !.hr = [IdleHandler EXCEPT !.pc = "persist", !.run = runNo + 1,
                                                   !.clearHistory = clearHistory,
                                                   !.recordsAtStart = Len(storage.scrapedJobs)]])
                /\ runNo' = runNo + 1
       ELSE /\ bcast' = <<>>
            /\ UNCHANGED <<globals, hs, storage, hostUrl, runNo>>
    /\ envQuiet

InRun(h) == hs[h].pc \notin {"idle", "thrown"}

\* where an invocation can be suspended inside processSingleJob, and inside
\* runResumeBuilderQueue
ItemPcs ==
    {"sim", "popup", "tab_create", "tab_load", "scrape", "email", "save", "submit", "backoff", "mark"}
DownstreamPcs ==
    {"p2_fetch", "p2_nav", "p2_build", "p2_submit", "p2_backoff", "p2_wait", "p2_reload_wait"}

\* case MSG.STOP_QUEUE: stopRequested = true
StopQueue ==
    /\ stopRequested' = TRUE
    /\ hs' = [h \in Handlers |->
                IF InRun(h)
                THEN [hs[h] EXCEPT !.stopSeen = TRUE,
                                   !.stopInItem = @ \/ (~hs[h].stopSeen /\ hs[h].pc \in ItemPcs)]
                ELSE hs[h]]
    /\ bcast' = <<>>
    /\ UNCHANGED <<queue, isRunning, dashboardTabId, processedCount, failedCount, isProcessing,
                   storage, hostUrl, nStart, runNo, page, ext, tabStatus, waits, dialogs, onMessage, inflight, flow>>
    /\ envQuiet

\* case MSG.JOBS_COLLECTED: queue = msg.jobs
JobsCollected(m) ==
    /\ m \in jcMsgs
    /\ jcMsgs' = jcMsgs \ {m}
    /\ queue' = m.jobs
    /\ bcast' = <<>>
    /\ UNCHANGED <<isRunning, stopRequested, dashboardTabId, processedCount, failedCount,
                   isProcessing, pendingResolvers, hs, storage, timers, wreq, openTabs,
                   hostUrl, nStart, runNo, page, ext, tabStatus, waits, dialogs, onMessage, inflight, flow>>

\* ------------------------------------------------------- handleStartQueue
\* chrome.storage.local.set({ QUEUE_ACTIVE: true }), the optional removal of
\* the history, then chrome.tabs.query is awaited
PersistActive(h) ==
    /\ hs[h].pc = "persist"
    /\ LET c == Ctx(h)
           c1 == [c EXCEPT !.st.queueActive = TRUE]
           c2 == IF c.hr.clearHistory
                 THEN [c1 EXCEPT !.st.processedIds = <<>>, !.st.stats = EmptyStats]
                 ELSE c1
       IN  Commit(h, At([c2 EXCEPT !.hr.clearHistory = FALSE,
                                   !.hr.statsAtStart = c2.st.stats], "query"))
    /\ UNCHANGED <<nStart, runNo, page, ext, tabStatus, waits, dialogs, onMessage, inflight, flow>>
    /\ envQuiet

\* the answer of chrome.tabs.query: a dashboard tab, none, or a rejection;
\* with a tab, COLLECT_JOBS is sent
QueryTabs(h, outcome) ==
    /\ hs[h].pc = "query"
    /\ LET c == Ctx(h)
       IN  CASE outcome = "none" ->
                    Commit(h, finishQueue(broadcastStatus(c, "no_dashboard", "error")))
             [] outcome = "error" ->
                    Commit(h, finishQueue(c))
             [] outcome = "found" ->
                    Commit(h, At(broadcastStatus([c EXCEPT !.tabId = DashTab, !.url = "dashboard"],
                                                 "collecting", "info"), "collect"))
    /\ UNCHANGED <<nStart, runNo, page, ext, tabStatus, waits, dialogs, onMessage, inflight, flow>>
    /\ envQuiet

\* requestJobCollection settles: chrome.runtime.lastError rejects it, any
\* response resolves it.  The content script answers { ok: true } after it
\* has sent JOBS_COLLECTED, or { ok: false, error } when collectJobRows threw.
requestJobCollection(h, outcome, jobs) ==
    /\ hs[h].pc = "collect"
    /\ LET c == Ctx(h)
       IN  CASE outcome = "lastError" ->
                    /\ Commit(h, finishQueue(broadcastStatus(c, "collect_failed", "error")))
                    /\ jcMsgs' = jcMsgs
             [] outcome = "ok" ->
                    /\ Commit(h, At(c, "settle"))
                    /\ jcMsgs' = jcMsgs \cup {[run |-> c.hr.run, jobs |-> jobs]}
             [] outcome = "failed" ->
                    /\ Commit(h, At([c EXCEPT !.hr.enumFailed = TRUE], "settle"))
                    /\ jcMsgs' = jcMsgs
    /\ UNCHANGED <<pendingResolvers, timers, wreq, openTabs, nStart, runNo, page, ext, tabStatus, waits, dialogs, onMessage, inflight, flow>>

\* after sleep(800): phase 2 at once when the queue is empty, else runQueue
SettleEnd(h) ==
    /\ hs[h].pc = "settle"
    /\ LET c == [Ctx(h) EXCEPT !.hr.enumerated = queue,
                               !.hr.stopAtPhase1End = stopRequested /\ Len(queue) = 0]
       IN  IF Len(c.q) = 0
           THEN Commit(h, At(broadcastStatus(c, "no_jobs", "warn"), "p2_pause"))
           ELSE Commit(h, loopTop(broadcastStatus(c, "found_jobs", "info"), 0))
    /\ UNCHANGED <<nStart, runNo, page, ext, tabStatus, waits, dialogs, onMessage, inflight, flow>>
    /\ envQuiet


\* ------------------------------------------------------------------- retry
\* a retry loop that allows one attempt too many
retryLoopsOnceMore(attempt, maxRetries) == attempt <= maxRetries + 1

\* for (let attempt = 1; attempt <= maxRetries; attempt++)
retryLoops(attempt, maxRetries) == attempt <= maxRetries

\* if (attempt < maxRetries) await sleep(delay)
retrySleeps(attempt, maxRetries) == attempt < maxRetries

\* const delay = baseDelayMs * Math.pow(2, attempt - 1)
retryDelay(attempt, baseDelayMs) == baseDelayMs * 2 ^ (attempt - 1)

\* sendJobToAPI is called: retry starts with attempt = 1
sendJobToAPI(hr) == [hr EXCEPT !.attempt = 1, !.delays = <<>>, !.apiResult = "none"]

\* attempt++ and the loop test of retry; leaving the loop throws lastError
retryNext(hr) ==
    IF retryLoops(hr.attempt + 1, MAX_RETRIES)
    THEN [hr EXCEPT !.attempt = @ + 1]
    ELSE [hr EXCEPT !.apiResult = "failure"]

\* fn() of retry settled: return its value, or the catch block
retryAttempt(hr, ok) ==
    IF ok
    THEN [hr EXCEPT !.apiResult = "success"]
    ELSE IF retrySleeps(hr.attempt, MAX_RETRIES)
         THEN [hr EXCEPT !.delays = Append(@, retryDelay(hr.attempt, RETRY_BASE_DELAY_MS))]
         ELSE retryNext(hr)

\* retry went to sleep in this step
Sleeping(before, after) == Len(after.delays) > Len(before.delays)

\* a submit whose exhaustion is thrown to the caller
sendJobToAPIRethrows(c, pc) == runQueueCatch(c)

\* catch (err) { ...; return { success: false, error } }  of sendJobToAPI:
\* the caller logs a warning and goes on
sendJobToAPICatch(c, pc) == At(c, pc)

\* ------------------------------------------------------------ processJobFlow
noEnvChange == UNCHANGED <<nStart, runNo, page, ext, tabStatus, waits, dialogs, onMessage, inflight, flow>>

\* a || b  on strings and on char sequences
OrStr(a, b) == IF a # "" THEN a ELSE b
OrSeq(a, b) == IF a # <<>> THEN a ELSE b

\* a payload whose applyEmail has no placeholder default
mergePayloadNoPlaceholder(hr) ==
    [jobId |-> hr.jobId,
     title |-> OrSeq(hr.popupData.title, OrSeq(hr.rawJob.title, <<>>)),
     company |-> OrSeq(hr.popupData.company, OrSeq(hr.rawJob.company, <<>>)),
     viewFullPostUrl |-> hr.popupData.viewFullPostUrl,
     fullDescription |-> OrStr(hr.externalData.fullDescription, ""),
     applyEmail |-> OrStr(hr.externalData.applyEmail, ""),
     location |-> OrStr(hr.externalData.location, ""),
     experience |-> OrStr(hr.externalData.experience, ""),
     emailSubject |-> OrStr(hr.emailData.emailSubject, ""),
     emailBody |-> OrStr(hr.emailData.emailBody, ""),
     jdResumeBuilt |-> FALSE]

\* const jobPayload = { ... }
mergePayload(hr) ==
    [jobId |-> hr.jobId,
     title |-> OrSeq(hr.popupData.title, OrSeq(hr.rawJob.title, <<>>)),
     company |-> OrSeq(hr.popupData.company, OrSeq(hr.rawJob.company, <<>>)),
     viewFullPostUrl |-> hr.popupData.viewFullPostUrl,
     fullDescription |-> OrStr(hr.externalData.fullDescription, ""),
     applyEmail |-> OrStr(hr.externalData.applyEmail, "not-provided"),
     location |-> OrStr(hr.externalData.location, ""),
     experience |-> OrStr(hr.externalData.experience, ""),
     emailSubject |-> OrStr(hr.emailData.emailSubject, ""),
     emailBody |-> OrStr(hr.emailData.emailBody, ""),
     jdResumeBuilt |-> FALSE]

\* the request of getPopupData / getEmailData issued by handler h
Request(h, kind) == [kind |-> kind, run |-> hs[h].run, item |-> hs[h].i]

\* new Promise(...) of getPopupData / getEmailData: arm the timer, put the
\* resolver in the slot, send the message to the content script
IssueRequest(r) ==
    /\ timers' = timers \cup {r}
    /\ pendingResolvers' = [pendingResolvers EXCEPT ![r.kind] = r]
    /\ wreq' = wreq \cup {r}

\* executeScript(simulateClickInMainWorld) settles; on success getPopupData
SimulateClick(h, ok) ==
    /\ hs[h].pc = "sim"
    /\ LET c == Ctx(h)
           r == Request(h, "popupData")
       IN  IF ok
           THEN /\ Commit(h, At([c EXCEPT !.hr.req = r, !.hr.by = NoReq], "popup"))
                /\ IssueRequest(r)
           ELSE /\ Commit(h, runQueueCatch(throw(c, "click")))
                /\ UNCHANGED <<pendingResolvers, timers, wreq>>
    /\ UNCHANGED <<jcMsgs, openTabs>>
    /\ noEnvChange

\* a flow that opens the tab without looking at the URL
popupSettledNoUrlCheck(c, rejected, data, by) ==
    LET c1 == [c EXCEPT !.hr.by = by]
    IN  IF rejected \/ data.error
        THEN runQueueCatch(throw(c1, "popup"))
        ELSE At(broadcastStatus([c1 EXCEPT !.hr.popupData = data], "opening", "info"),
                "tab_create")

\* processJobFlow after getPopupData settled
popupSettled(c, rejected, data, by) ==
    LET c1 == [c EXCEPT !.hr.by = by]
    IN  IF rejected \/ data.error
        THEN runQueueCatch(throw(c1, "popup"))
        ELSE IF data.viewFullPostUrl = ""
             THEN runQueueCatch(throw([c1 EXCEPT !.hr.popupData = data], "no_url"))
             ELSE At(broadcastStatus([c1 EXCEPT !.hr.popupData = data], "opening", "info"),
                     "tab_create")

\* a flow in which a failed getEmailData fails the item
emailSettledFatal(c, rejected, data, by) ==
    LET c1 == [c EXCEPT !.hr.by = by, !.hr.emailFailed = rejected \/ data.error,
                        !.hr.emailData = IF rejected \/ data.error THEN EmptyEmail ELSE data]
    IN  IF rejected \/ data.error
        THEN runQueueCatch(throw(c1, "email"))
        ELSE At([c1 EXCEPT !.hr.payload = mergePayload(c1.hr)], "save")

\* processJobFlow after getEmailData settled: the payload is built and the
\* read of scrapedJobs is awaited
emailSettled(c, rejected, data, by) ==
    LET c1 == [c EXCEPT !.hr.by = by, !.hr.emailFailed = rejected \/ data.error,
                        !.hr.emailData = IF rejected \/ data.error THEN EmptyEmail ELSE data]
    IN  At([c1 EXCEPT !.hr.payload = mergePayload(c1.hr)], "save")

Settled(c, rejected, data, by) ==
    IF c.hr.pc = "popup" THEN popupSettled(c, rejected, data, by)
    ELSE emailSettled(c, rejected, data, by)

\* the handlers whose promise belongs to request r
Awaiting(r) == {h \in Handlers : hs[h].pc \in {"popup", "email"} /\ hs[h].req = r}

NoData(kind) == IF kind = "popupData" THEN NoPopup ELSE EmptyEmail

Resume(r, rejected, data, by) ==
    IF Awaiting(r) = {}
    THEN /\ bcast' = <<>>
         /\ UNCHANGED <<globals, hs, storage, hostUrl>>
    ELSE LET h == CHOOSE x \in Awaiting(r) : TRUE
         IN  Commit(h, Settled(Ctx(h), rejected, data, by))

\* The content script pushes JOB_POPUP_DATA / EMAIL_DATA for request r;
\* case MSG.JOB_POPUP_DATA / EMAIL_DATA runs the resolver found in the slot.
\* a resolver that does not clear its timer
timersKeptAfterResponse(ts, o) == ts

\* clearTimeout(timeout)  in the resolver of getPopupData / getEmailData
timersAfterResponse(ts, o) == ts \ {o}

PushData(r, data) ==
    /\ r \in wreq
    /\ data \in (IF r.kind = "popupData" THEN PopupResults \cup PanelResults ELSE EmailResults)
    /\ wreq' = wreq \ {r}
    /\ LET o == pendingResolvers[r.kind]
       IN  IF o = NoReq
           THEN /\ bcast' = <<>>
                /\ UNCHANGED <<globals, hs, storage, hostUrl, pendingResolvers, timers>>
           ELSE /\ timers' = timersAfterResponse(timers, o)
                /\ pendingResolvers' = [pendingResolvers EXCEPT ![r.kind] = NoReq]
                /\ Resume(o, FALSE, data, r)
    /\ UNCHANGED <<jcMsgs, openTabs>>
    /\ noEnvChange

\* a timeout that leaves its resolver in the slot
slotKeptAfterTimeout(slots, kind) == slots

\* _pendingResolvers.popupData = null  in the setTimeout callback
slotAfterTimeout(slots, kind) == [slots EXCEPT ![kind] = NoReq]

\* The setTimeout callback of request r: the slot is cleared, the promise
\* rejected.  The content script may still answer later (keep).
Timeout(r, keep) ==
    /\ r \in timers
    /\ keep => r \in wreq /\ Cardinality(wreq \ timers) < MaxLate
    /\ timers' = timers \ {r}
    /\ wreq' = IF keep THEN wreq ELSE wreq \ {r}
    /\ pendingResolvers' = slotAfterTimeout(pendingResolvers, r.kind)
    /\ Resume(r, TRUE, NoData(r.kind), NoReq)
    /\ UNCHANGED <<jcMsgs, openTabs>>
    /\ noEnvChange

\* The sendMessage callback of request r runs with chrome.runtime.lastError.
TransportError(r) ==
    /\ r \in wreq
    /\ wreq' = wreq \ {r}
    /\ timers' = timers \ {r}
    /\ pendingResolvers' = [pendingResolvers EXCEPT ![r.kind] = NoReq]
    /\ Resume(r, TRUE, NoData(r.kind), NoReq)
    /\ UNCHANGED <<jcMsgs, openTabs>>
    /\ noEnvChange

\* chrome.tabs.create settles
TabCreate(h, ok) ==
    /\ hs[h].pc = "tab_create"
    /\ LET c == Ctx(h)
           t == [run |-> c.hr.run, item |-> c.hr.i + 1]
       IN  IF ok
           THEN /\ Commit(h, At([c EXCEPT !.hr.tab = t], "tab_load"))
                /\ openTabs' = openTabs \cup {t}
           ELSE /\ Commit(h, runQueueCatch(throw(c, "tab")))
                /\ openTabs' = openTabs
    /\ UNCHANGED <<pendingResolvers, timers, wreq, jcMsgs>>
    /\ noEnvChange

\* waitForTabComplete(tab.id) settles
TabLoad(h, complete) ==
    /\ hs[h].pc = "tab_load"
    /\ LET c == Ctx(h)
       IN  IF complete
           THEN Commit(h, At(c, "scrape"))
           ELSE Commit(h, runQueueCatch(throw(c, "tab")))
    /\ envQuiet
    /\ noEnvChange

\* sleep(1000), executeScript(scrapeExternalJobPage) (it throws, returns
\* nothing, or returns a result), the finally that removes the tab, then
\* getEmailData
Scrape(h, outcome, result) ==
    /\ hs[h].pc = "scrape"
    /\ LET c == Ctx(h)
           c1 == [c EXCEPT !.hr.externalData = IF outcome = "data" THEN result ELSE EmptyExternal,
                           !.hr.auxEmpty = (outcome # "data")]
           r == Request(h, "emailData")
       IN  /\ Commit(h, At(broadcastStatus([c1 EXCEPT !.hr.req = r, !.hr.by = NoReq],
                                           "extracting_email", "info"), "email"))
           /\ openTabs' = openTabs \ {c.hr.tab}
           /\ IssueRequest(r)
    /\ UNCHANGED jcMsgs
    /\ noEnvChange

\* a save that filters and forgets to push the new record
saveScrapedJobsNoPush(jobs, payload) ==
    SelectSeq(jobs, LAMBDA j : j.jobId # payload.jobId)

\* a save that appends without removing the entry of the same jobId
saveScrapedJobsNoFilter(jobs, payload) == Append(jobs, payload)

\* chrome.storage.local.get / set of scrapedJobs, inside try/catch
saveScrapedJobs(jobs, payload) ==
    Append(SelectSeq(jobs, LAMBDA j : j.jobId # payload.jobId), payload)

SaveLocal(h, ok) ==
    /\ hs[h].pc = "save"
    /\ LET c == Ctx(h)
           c1 == IF ok
                 THEN [c EXCEPT !.st.scrapedJobs = saveScrapedJobs(@, c.hr.payload),
                                !.hr.saved = TRUE]
                 ELSE [c EXCEPT !.hr.unsaved = @ + 1]
       IN  Commit(h, At([c1 EXCEPT !.hr = sendJobToAPI(@)], "submit"))
    /\ envQuiet
    /\ noEnvChange

\* one attempt of sendJobToAPI(jobPayload) settles
Submit(h, ok) ==
    /\ hs[h].pc = "submit"
    /\ LET c == [Ctx(h) EXCEPT !.hr = retryAttempt(@, ok)]
       IN  CASE c.hr.apiResult = "failure" -> Commit(h, sendJobToAPICatch(c, "mark"))
             [] c.hr.apiResult = "success" -> Commit(h, At(c, "mark"))
             [] OTHER -> Commit(h, At(c, IF Sleeping(hs[h], c.hr) THEN "backoff" ELSE "submit"))
    /\ envQuiet
    /\ noEnvChange

\* sleep(delay) of retry is over
Backoff(h) ==
    /\ hs[h].pc = "backoff"
    /\ LET c == [Ctx(h) EXCEPT !.hr = retryNext(@)]
       IN  IF c.hr.apiResult = "failure"
           THEN Commit(h, sendJobToAPICatch(c, "mark"))
           ELSE Commit(h, At(c, "submit"))
    /\ envQuiet
    /\ noEnvChange

markAsProcessed(ids, jobId) ==
    IF \E k \in 1..Len(ids) : ids[k] = jobId THEN ids ELSE Append(ids, jobId)

\* an updateStats that ignores its argument
updateStatsSuccessOnly(stats, type) == [stats EXCEPT !.success = @ + 1]

updateStats(stats, type) ==
    IF type = "success" THEN [stats EXCEPT !.success = @ + 1]
    ELSE [stats EXCEPT !.failed = @ + 1]

\* markAsProcessed, updateStats('success'), the finally of processSingleJob,
\* then processedCount++ and the rest of the iteration
ItemDone(h) ==
    /\ hs[h].pc = "mark"
    /\ LET c == Ctx(h)
           c1 == [c EXCEPT !.st.processedIds = markAsProcessed(@, c.hr.jobId),
                           !.st.stats = updateStats(@, "success")]
           c2 == countSuccess(processSingleJobFinally(c1, FALSE))
       IN  Commit(h, afterItem(broadcastStatus(c2, "done", "success"), c.hr.i))
    /\ envQuiet
    /\ noEnvChange

\* updateStats('failed') resolved: the rest of the catch block of runQueue
ItemFailed(h) ==
    /\ hs[h].pc = "stats_failed"
    /\ LET c == Ctx(h)
           c1 == [c EXCEPT !.st.stats = updateStats(@, "failed")]
       IN  Commit(h, afterItem(broadcastStatus(c1, "failed", "error"), c.hr.i))
    /\ envQuiet
    /\ noEnvChange

\* sleep(JOB_DELAY_MS) is over
DelayEnd(h) ==
    /\ hs[h].pc = "delay"
    /\ Commit(h, loopTop(Ctx(h), nextIndex(hs[h].i)))
    /\ envQuiet
    /\ noEnvChange


\* ------------------------------------------------------ runResumeBuilderQueue
\* sleep(2000) is over: runResumeBuilderQueue starts and awaits fetch
Phase2Start(h) ==
    /\ hs[h].pc = "p2_pause"
    /\ Commit(h, At(Ctx(h), "p2_fetch"))
    /\ envQuiet
    /\ noEnvChange

\* a phase 2 that takes every record the backend lists
filterPendingAll(jobs) == jobs

\* jobs.filter(job => job.jdResumeBuilt !== true)
filterPending(jobs) == SelectSeq(jobs, LAMBDA job : job.jdResumeBuilt # TRUE)

\* fetch(`${API_BASE_URL}/api/jobs`) settles
Phase2Fetch(h, ok, jobs) ==
    /\ hs[h].pc = "p2_fetch"
    /\ LET c == [Ctx(h) EXCEPT !.hr.fetched = IF ok THEN jobs ELSE <<>>]
           pendingJobs == filterPending(jobs)
       IN  IF ~ok
           THEN Commit(h, finishQueue(broadcastStatus(c, "fetch_failed", "error")))
           ELSE IF Len(pendingJobs) = 0
                THEN Commit(h, finishQueue(broadcastStatus(c, "phase2_skipped", "success")))
                ELSE Commit(h, At(broadcastStatus([c EXCEPT !.hr.pendingJobs = pendingJobs],
                                                  "phase2_building", "info"), "p2_nav"))
    /\ envQuiet
    /\ noEnvChange

\* chrome.tabs.update to the resume builder, waitForTabComplete, sleep(2000)
Phase2Navigate(h, outcome) ==
    /\ hs[h].pc = "p2_nav"
    /\ LET c == Ctx(h)
           c1 == IF outcome = "update_failed" THEN c ELSE [c EXCEPT !.url = "builder"]
       IN  IF outcome = "ok"
           THEN Commit(h, p2LoopTop(c1, 0))
           ELSE Commit(h, finishQueue(broadcastStatus(c1, "navigate_failed", "error")))
    /\ envQuiet
    /\ noEnvChange

\* job.jdResumeBuilt = true; sendJobToAPI(job) is entered
buildSucceeded(hr) ==
    LET job == [hr.pendingJobs[hr.j + 1] EXCEPT !.jdResumeBuilt = TRUE]
    IN  sendJobToAPI([hr EXCEPT !.pendingJobs[hr.j + 1] = job,
                                !.builtOk = @ \cup {hr.j + 1},
                                !.resent = @ \cup {job}])

\* the answer to BUILD_RESUME
Phase2Build(h, outcome) ==
    /\ hs[h].pc = "p2_build"
    /\ LET c == Ctx(h)
       IN  CASE outcome = "success" ->
                    Commit(h, At([c EXCEPT !.hr = buildSucceeded(@)], "p2_submit"))
             [] outcome = "no_success" -> Commit(h, p2After(c, c.hr.j))
             [] outcome \in {"error", "lastError"} ->
                    Commit(h, p2After(broadcastStatus(c, "resume_failed", "error"), c.hr.j))
    /\ envQuiet
    /\ noEnvChange

\* sendJobToAPI(job) with jdResumeBuilt = true returned, whatever its result
p2Submitted(c) == p2After(broadcastStatus(c, "resume_built", "success"), c.hr.j)

\* one attempt of sendJobToAPI(job) settles
Phase2Submit(h, ok) ==
    /\ hs[h].pc = "p2_submit"
    /\ LET c == [Ctx(h) EXCEPT !.hr = retryAttempt(@, ok)]
       IN  IF c.hr.apiResult # "none"
           THEN Commit(h, p2Submitted(c))
           ELSE Commit(h, At(c, IF Sleeping(hs[h], c.hr) THEN "p2_backoff" ELSE "p2_submit"))
    /\ envQuiet
    /\ noEnvChange

\* sleep(delay) of retry is over
Phase2Backoff(h) ==
    /\ hs[h].pc = "p2_backoff"
    /\ LET c == [Ctx(h) EXCEPT !.hr = retryNext(@)]
       IN  IF c.hr.apiResult # "none"
           THEN Commit(h, p2Submitted(c))
           ELSE Commit(h, At(c, "p2_submit"))
    /\ envQuiet
    /\ noEnvChange

\* sleep(5000), then chrome.tabs.reload settles (outside any try)
Phase2Reload(h, ok) ==
    /\ hs[h].pc = "p2_wait"
    /\ Commit(h, IF ok THEN At(Ctx(h), "p2_reload_wait") ELSE Thrown(Ctx(h)))
    /\ envQuiet
    /\ noEnvChange

\* waitForTabComplete(dashboardTabId) settles (outside any try), sleep(3000)
Phase2ReloadWait(h, complete) ==
    /\ hs[h].pc = "p2_reload_wait"
    /\ Commit(h, IF complete
                 THEN p2LoopTop([Ctx(h) EXCEPT !.hr.reloads = @ + 1], hs[h].j + 1)
                 ELSE Thrown(Ctx(h)))
    /\ envQuiet
    /\ noEnvChange

\* ------------------------------------------------------------ specification
Next ==
    \/ \E clearHistory \in BOOLEAN : handleStartQueue(clearHistory)
    \/ StopQueue
    \/ \E m \in jcMsgs : JobsCollected(m)
    \/ \E h \in Handlers : PersistActive(h)
    \/ \E h \in Handlers, outcome \in {"found", "none", "error"} : QueryTabs(h, outcome)
    \/ \E h \in Handlers, outcome \in {"ok", "failed", "lastError"}, jobs \in JobLists :
            requestJobCollection(h, outcome, jobs)
    \/ \E h \in Handlers : SettleEnd(h)
    \/ \E h \in Handlers, ok \in BOOLEAN : SimulateClick(h, ok)
    \/ \E r \in wreq, data \in PopupResults \cup EmailResults : PushData(r, data)
    \/ \E r \in timers, keep \in BOOLEAN : Timeout(r, keep)
    \/ \E r \in wreq : TransportError(r)
    \/ \E h \in Handlers, ok \in BOOLEAN : TabCreate(h, ok)
    \/ \E h \in Handlers, complete \in BOOLEAN : TabLoad(h, complete)
    \/ \E h \in Handlers, outcome \in {"threw", "empty", "data"}, result \in ExternalResults :
            Scrape(h, outcome, result)
    \/ \E h \in Handlers, ok \in BOOLEAN : SaveLocal(h, ok)
    \/ \E h \in Handlers, ok \in BOOLEAN : Submit(h, ok)
    \/ \E h \in Handlers : Backoff(h)
    \/ \E h \in Handlers : ItemDone(h)
    \/ \E h \in Handlers : ItemFailed(h)
    \/ \E h \in Handlers : DelayEnd(h)
    \/ \E h \in Handlers : Phase2Start(h)
    \/ \E h \in Handlers, ok \in BOOLEAN, jobs \in BackendLists : Phase2Fetch(h, ok, jobs)
    \/ \E h \in Handlers, outcome \in {"ok", "update_failed", "load_timeout"} :
            Phase2Navigate(h, outcome)
    \/ \E h \in Handlers, outcome \in {"success", "no_success", "error", "lastError"} :
            Phase2Build(h, outcome)
    \/ \E h \in Handlers, ok \in BOOLEAN : Phase2Submit(h, ok)
    \/ \E h \in Handlers : Phase2Backoff(h)
    \/ \E h \in Handlers, ok \in BOOLEAN : Phase2Reload(h, ok)
    \/ \E h \in Handlers, complete \in BOOLEAN : Phase2ReloadWait(h, complete)

Spec == Init /\ [][Next]_vars

\* ------------------------------------------------- specification of the id
\* The rows the dashboard can show: any title and company over a few
\* characters (blank, upper and lower case letters).
TitleChars == {32, 65, 97, 98}
CompanyChars == {32, 67, 99}
Titles == UNION {[1..n -> TitleChars] : n \in 0..MaxTitleLen}
Companies == UNION {[1..n -> CompanyChars] : n \in 0..MaxCompanyLen}

\* A run that has collected one row and is at the end of sleep(800).
InitId ==
    /\ \E t \in Titles, c \in Companies :
            queue = <<[index |-> 0, status |-> "New", title |-> t, company |-> c]>>
    /\ isRunning = TRUE
    /\ stopRequested = FALSE
    /\ dashboardTabId = DashTab
    /\ processedCount = 0
    /\ failedCount = 0
    /\ isProcessing = FALSE
    /\ pendingResolvers = [popupData |-> NoReq, emailData |-> NoReq]
    /\ hs = [h \in Handlers |->
                IF h = 1 THEN [IdleHandler EXCEPT !.pc = "settle", !.run = 1] ELSE IdleHandler]
    /\ storage = [queueActive |-> TRUE, scrapedJobs |-> <<>>, processedIds |-> <<>>,
                  stats |-> EmptyStats]
    /\ timers = {}
    /\ wreq = {}
    /\ jcMsgs = {}
    /\ openTabs = {}
    /\ hostUrl = "dashboard"
    /\ bcast = <<>>
    /\ nStart = 1
    /\ runNo = 1
    /\ page = FreshPage(TRUE)
    /\ ext = [a \in Extractions |-> IdleExtraction]
    /\ tabStatus = [t \in WaitTabs |-> "complete"]
    /\ waits = [w \in Waits |-> IdleWait]
    /\ dialogs = {}
    /\ onMessage = [n \in Requests |-> IdleRequest]
    /\ inflight = {}
    /\ flow = [i |-> 0, pc |-> "start"]

\* runQueue computes the id of the row: generateJobId(rawJob.title || ..., ...)
NextId == \E h \in Handlers : SettleEnd(h)

SpecId == InitId /\ [][NextId]_vars

\* ------------------------------------------ one item, title and company
\* Rows as parseRow returns them: the cell gave a title and a company, a
\* title only, or nothing.
MergeRows ==
    {[index |-> 0, status |-> "New", title |-> t, company |-> c] :
        t \in {<<>>, <<84, 49>>}, c \in {<<>>, <<67>>}}

InitMerge ==
    /\ \E row \in MergeRows : queue = <<row>> /\ (row.title = <<>> => row.company = <<>>)
    /\ isRunning = TRUE
    /\ stopRequested = FALSE
    /\ dashboardTabId = DashTab
    /\ processedCount = 0
    /\ failedCount = 0
    /\ isProcessing = FALSE
    /\ pendingResolvers = [popupData |-> NoReq, emailData |-> NoReq]
    /\ hs = [h \in Handlers |->
                IF h = 1 THEN [IdleHandler EXCEPT !.pc = "settle", !.run = 1] ELSE IdleHandler]
    /\ storage = [queueActive |-> TRUE, scrapedJobs |-> <<>>, processedIds |-> <<>>,
                  stats |-> EmptyStats]
    /\ timers = {}
    /\ wreq = {}
    /\ jcMsgs = {}
    /\ openTabs = {}
    /\ hostUrl = "dashboard"
    /\ bcast = <<>>
    /\ nStart = 1
    /\ runNo = 1
    /\ page = FreshPage(TRUE)
    /\ ext = [a \in Extractions |-> IdleExtraction]
    /\ tabStatus = [t \in WaitTabs |-> "complete"]
    /\ waits = [w \in Waits |-> IdleWait]
    /\ dialogs = {}
    /\ onMessage = [n \in Requests |-> IdleRequest]
    /\ inflight = {}
    /\ flow = [i |-> 0, pc |-> "start"]

\* runQueue and processJobFlow for the row, up to the write of its record
NextMerge ==
    \/ \E h \in Handlers : SettleEnd(h)
    \/ \E h \in Handlers, ok \in BOOLEAN : SimulateClick(h, ok)
    \/ \E r \in wreq, data \in PanelResults \cup EmailResults : PushData(r, data)
    \/ \E r \in timers, keep \in BOOLEAN : Timeout(r, keep)
    \/ \E r \in wreq : TransportError(r)
    \/ \E h \in Handlers, ok \in BOOLEAN : TabCreate(h, ok)
    \/ \E h \in Handlers, complete \in BOOLEAN : TabLoad(h, complete)
    \/ \E h \in Handlers, outcome \in {"threw", "empty", "data"}, result \in ExternalResults :
            Scrape(h, outcome, result)
    \/ \E h \in Handlers, ok \in BOOLEAN : SaveLocal(h, ok)

SpecMerge == InitMerge /\ [][NextMerge]_vars

\* ------------------------------------------------- interception on the page
\* a || b  on the stored function references
OrFn(a, b) == IF a # "undefined" THEN a ELSE b

\* a prepare that stores the current bindings whatever it stored before
prepareOverwritesBackup(p) ==
    [p EXCEPT !.attr = "",
              !.origOpen = p.open, !.origAssign = p.assign, !.origReplace = p.replace,
              !.open = "wrap",
              !.assign = IF p.forgeable THEN "wrap" ELSE @,
              !.replace = IF p.forgeable THEN "wrap" ELSE @,
              !.last = "prepare", !.row = @ + 1, !.twice = @ \/ p.row >= 1]

\* a prepare that leaves a URL it finds in data-rp-url
prepareKeepsUrl(p) ==
    [p EXCEPT !.attr = IF @ = "absent" THEN "" ELSE @,
              !.origOpen = OrFn(@, p.open),
              !.origAssign = OrFn(@, p.assign),
              !.origReplace = OrFn(@, p.replace),
              !.open = "wrap",
              !.assign = IF p.forgeable THEN "wrap" ELSE @,
              !.replace = IF p.forgeable THEN "wrap" ELSE @,
              !.last = "prepare", !.row = @ + 1, !.twice = @ \/ p.row >= 1]

\* the function handlePrepareInterception injects into the MAIN world
prepareInterception(p) ==
    [p EXCEPT !.attr = "",
              !.origOpen = OrFn(@, p.open),
              !.origAssign = OrFn(@, p.assign),
              !.origReplace = OrFn(@, p.replace),
              !.open = "wrap",
              !.assign = IF p.forgeable THEN "wrap" ELSE @,
              !.replace = IF p.forgeable THEN "wrap" ELSE @,
              !.last = "prepare", !.row = @ + 1, !.twice = @ \/ p.row >= 1]

\* the function handleCleanupInterception injects into the MAIN world
cleanupInterception(p) ==
    [p EXCEPT !.open = IF p.origOpen # "undefined" THEN p.origOpen ELSE @,
              !.assign = IF p.origAssign # "undefined" /\ p.forgeable THEN p.origAssign ELSE @,
              !.replace = IF p.origReplace # "undefined" /\ p.forgeable THEN p.origReplace ELSE @,
              !.attr = "absent",
              !.last = "cleanup", !.row = 0, !.stale = {}]

\* capture(url) of the installed wrappers
capture(p, url) == IF url = "https://post" THEN [p EXCEPT !.attr = url, !.stale = {}] ELSE p

\* the prepare of extraction a has run: a URL that is still in data-rp-url
\* was written before it
staleAfter(p, a) ==
    [p EXCEPT !.stale = IF p.attr \in {"", "absent"} THEN {} ELSE @ \cup {a}]

\* The document is replaced: its scripts, bindings and attributes are gone,
\* and so are the extractions that ran in it.
Unload ==
    /\ page' = FreshPage(page.forgeable)
    /\ ext' = [a \in Extractions |->
                IF ext[a].pc \in {"idle", "done"} THEN ext[a] ELSE [ext[a] EXCEPT !.pc = "unloaded"]]

mainQuiet == UNCHANGED <<globals, pendingResolvers, hs, storage, env, hostUrl, bcast, nStart, runNo,
                         tabStatus, waits, dialogs, onMessage, inflight, flow>>

\* extractFromPopup from the View Full Post button on: the button has an
\* href or a data attribute, needs the interception, or is not there
toPostButton(e, post) ==
    IF post = "intercept"
    THEN [e EXCEPT !.pc = "prepare", !.stage = "post", !.got = "", !.prepares = @ + 1]
    ELSE [e EXCEPT !.pc = "scan", !.stage = "none", !.got = "",
                   !.viewFullPostUrl = IF post = "href" THEN "https://href" ELSE ""]

\* extractFromPopup up to the first interception: the View Profile button
\* needs the interception or not
ExtractStart(a, profile, post) ==
    /\ ext[a].pc = "idle"
    /\ ext' = [ext EXCEPT ![a] =
                IF profile = "intercept"
                THEN [@ EXCEPT !.pc = "prepare", !.stage = "profile", !.prepares = @ + 1]
                ELSE toPostButton(@, post)]
    /\ UNCHANGED page
    /\ mainQuiet

\* case MSG.PREPARE_INTERCEPTION: handlePrepareInterception(sender.tab.id),
\* then sendResponse; executeScript fails when the document is gone
PrepareInterception(a, ok) ==
    /\ ext[a].pc = "prepare"
    /\ IF ok
       THEN /\ page' = staleAfter(prepareInterception(page), a)
            /\ ext' = [ext EXCEPT ![a].pc = "click",
                                  ![a].erased = @ \/ page.attr \notin {"", "absent"}]
       ELSE Unload
    /\ mainQuiet

\* button.click(): the page's handler runs and makes its navigation call now
\* or later, or makes none; then the first sleep(100)
Click(a, calls) ==
    /\ ext[a].pc = "click"
    /\ Cardinality(page.pending \cup calls) <= 1
    /\ page' = [page EXCEPT !.pending = @ \cup calls]
    /\ ext' = [ext EXCEPT ![a].pc = "poll", ![a].polls = 0, ![a].got = ""]
    /\ mainQuiet

\* the page calls window.open, location.assign or location.replace
PageCall(c) ==
    /\ c \in page.pending
    /\ IF page[c.fn] = "wrap"
       THEN /\ page' = capture([page EXCEPT !.pending = @ \ {c}], c.url)
            /\ UNCHANGED ext
       ELSE IF c.fn = "open"
            THEN /\ page' = [page EXCEPT !.pending = @ \ {c}]
                 /\ UNCHANGED ext
            ELSE Unload
    /\ mainQuiet

\* for (let i = 0; i < 20; i++) { await sleep(100); url = ...; if (url) break; }
pollingEnds(got, polls) == got # "" \/ polls >= MAX_POLLS

\* an extraction that asks for the cleanup only when it has read a URL
afterPollingNoCleanup(e) ==
    IF e.got # ""
    THEN [e EXCEPT !.pc = "cleanup", !.polls = 0, !.cleanups = @ + 1]
    ELSE [e EXCEPT !.pc = "scan", !.polls = 0]

\* chrome.runtime.sendMessage({ type: MSG.CLEANUP_INTERCEPTION })
afterPolling(e) == [e EXCEPT !.pc = "cleanup", !.polls = 0, !.cleanups = @ + 1]

\* sleep(100) is over: document.body.getAttribute('data-rp-url') || ''
Poll(a) ==
    /\ ext[a].pc = "poll"
    /\ LET got == IF page.attr = "absent" THEN "" ELSE page.attr
           e == [ext[a] EXCEPT !.polls = @ + 1, !.got = got]
       IN  ext' = [ext EXCEPT ![a] = IF pollingEnds(got, e.polls) THEN afterPolling(e) ELSE e]
    /\ UNCHANGED page
    /\ mainQuiet

\* case MSG.CLEANUP_INTERCEPTION: handleCleanupInterception(sender.tab.id),
\* then sendResponse; the extraction goes on to the next button or the scan
CleanupInterception(a, ok, post) ==
    /\ ext[a].pc = "cleanup"
    /\ IF ok
       THEN /\ page' = cleanupInterception(page)
            /\ ext' = [ext EXCEPT ![a] =
                    IF @.stage = "profile"
                    THEN toPostButton(@, post)
                    ELSE [@ EXCEPT !.viewFullPostUrl = ext[a].got, !.pc = "scan",
                                   !.stage = "none", !.got = ""]]
       ELSE Unload
    /\ mainQuiet

\* Final fallback: the first external link of the popup, if there is one
Scan(a, externalLink) ==
    /\ ext[a].pc = "scan"
    /\ ext' = [ext EXCEPT ![a].pc = "done",
                          ![a].viewFullPostUrl =
                              IF @ = "" /\ externalLink THEN "https://link" ELSE @]
    /\ UNCHANGED page
    /\ mainQuiet

InitPage ==
    /\ queue = <<>>
    /\ isRunning = FALSE
    /\ stopRequested = FALSE
    /\ dashboardTabId = NoTabId
    /\ processedCount = 0
    /\ failedCount = 0
    /\ isProcessing = FALSE
    /\ pendingResolvers = [popupData |-> NoReq, emailData |-> NoReq]
    /\ hs = [h \in Handlers |-> IdleHandler]
    /\ storage = [queueActive |-> FALSE, scrapedJobs |-> <<>>, processedIds |-> <<>>,
                  stats |-> EmptyStats]
    /\ timers = {}
    /\ wreq = {}
    /\ jcMsgs = {}
    /\ openTabs = {}
    /\ hostUrl = "dashboard"
    /\ bcast = <<>>
    /\ nStart = 0
    /\ runNo = 0
    /\ \E forgeable \in BOOLEAN : page = FreshPage(forgeable)
    /\ ext = [a \in Extractions |-> IdleExtraction]
    /\ tabStatus = [t \in WaitTabs |-> "complete"]
    /\ waits = [w \in Waits |-> IdleWait]
    /\ dialogs = {}
    /\ onMessage = [n \in Requests |-> IdleRequest]
    /\ inflight = {}
    /\ flow = [i |-> 0, pc |-> "start"]

NextPage ==
    \/ \E a \in Extractions, profile \in {"intercept", "other"},
             post \in {"intercept", "href", "none"} : ExtractStart(a, profile, post)
    \/ \E a \in Extractions, ok \in BOOLEAN : PrepareInterception(a, ok)
    \/ \E a \in Extractions, calls \in {{}} \cup {{c} : c \in Calls} : Click(a, calls)
    \/ \E c \in Calls : PageCall(c)
    \/ \E a \in Extractions : Poll(a)
    \/ \E a \in Extractions, ok \in BOOLEAN, post \in {"intercept", "href", "none"} :
            CleanupInterception(a, ok, post)
    \/ \E a \in Extractions, externalLink \in BOOLEAN : Scan(a, externalLink)

SpecPage == InitPage /\ [][NextPage]_vars


\* ------------------------------------------------------------------ claims
\* the per-item routine (processSingleJob) of handler h is in progress
InItem(h) == hs[h].pc \in ItemPcs

\* this step starts the per-item routine of handler h for an item
StartsItem(h) == InItem(h)' /\ (~InItem(h) \/ hs'[h].i # hs[h].i)

\* this step ends the per-item routine of handler h
EndsItem(h) == InItem(h) /\ (~InItem(h)' \/ hs'[h].i # hs[h].i)

Levels(b) == {b[n].level : n \in 1..Len(b)}
Tags(b) == {b[n].tag : n \in 1..Len(b)}

\* C1: no two runs are active at once, the running flag is true exactly
\* while an accepted invocation has not called finishQueue, and a
\* START_QUEUE received while the flag is true changes neither the queue,
\* the counters, the stop flag, the host tab id nor any invocation.
NoConcurrentRuns ==
    /\ [](/\ Cardinality({h \in Handlers : hs[h].pc # "idle"}) <= 1
          /\ isRunning <=> (\E h \in Handlers : hs[h].pc # "idle"))
    /\ [][(nStart' # nStart /\ isRunning) =>
            UNCHANGED <<queue, processedCount, failedCount, stopRequested,
                        dashboardTabId, isRunning, hs>>]_vars

\* a START_QUEUE has been ignored while an item was being processed
StartIgnoredWhileRunning ==
    isRunning /\ nStart > runNo /\ \E h \in Handlers : InItem(h) /\ hs[h].i = 1

\* C2: at most one per-item routine is in progress, and the isProcessing
\* lock is held exactly while one is.
SingleFlight ==
    /\ Cardinality({h \in Handlers : InItem(h)}) <= 1
    /\ isProcessing <=> (\E h \in Handlers : InItem(h))

\* the second item is in progress after a START_QUEUE and a STOP_QUEUE came
SecondItemInFlight ==
    \E h \in Handlers : InItem(h) /\ hs[h].i = 1 /\ nStart = MaxStarts /\ hs[h].stopSeen

\* C3: a run that has received STOP_QUEUE starts the per-item routine for
\* no further item, and the item in flight when the stop came ends as
\* exactly one success or one failure.
StopHonoredAtBoundary ==
    [][\A h \in Handlers :
        /\ StartsItem(h) => ~hs[h].stopSeen
        /\ (hs[h].stopSeen /\ EndsItem(h)) =>
                /\ processedCount' + failedCount' = processedCount + failedCount + 1
                /\ hs'[h].pc # "thrown"]_vars

\* STOP_QUEUE came while the first of two items was in flight, and that item
\* has run to its end and is counted
StoppedAfterFirstItem ==
    \E h \in Handlers :
        /\ hs[h].stopInItem
        /\ hs[h].pc = "stats_failed"
        /\ hs[h].i = 0
        /\ Len(queue) = 2
        /\ processedCount + failedCount = 1

\* C4: a run never ends without finishQueue: once no invocation of
\* handleStartQueue is executing any more, the running flag is false.
EveryRunFinishes ==
    (\A h \in Handlers : hs[h].pc \in {"idle", "thrown"}) => ~isRunning

\* C5: the step that calls finishQueue leaves the state idle and, if the
\* host tab id was known, sends the host tab back to the dashboard.
FinishLeavesIdle ==
    [][\A h \in Handlers :
        (InRun(h) /\ hs'[h].pc = "idle") =>
            /\ ~isRunning'
            /\ ~stopRequested'
            /\ queue' = <<>>
            /\ dashboardTabId' = NoTabId
            /\ ~storage'.queueActive
            /\ (dashboardTabId # NoTabId => hostUrl' = "dashboard")]_vars

\* phase 2 has completed on the resume builder page and finishQueue has
\* brought the host tab back
FinishedFromBuilder ==
    /\ "phase2_complete" \in Tags(bcast)
    /\ ~isRunning
    /\ hostUrl = "dashboard"
    /\ processedCount = 1

\* C6: a run whose enumeration failed enters neither the item loop nor the
\* downstream phase.
EnumFailureEndsRun ==
    \A h \in Handlers : hs[h].enumFailed => hs[h].pc \notin ItemPcs \cup DownstreamPcs

\* C7: a request is settled by a response only if the response answers it.
SettledByOwnResponse ==
    \A h \in Handlers : hs[h].by # NoReq => hs[h].by = hs[h].req

\* C8: a failure at the simulate-interaction, detail-request, required-field
\* or context-load step adds one to failedCount and nothing to
\* processedCount, is broadcast at level error, and the loop goes on with
\* the next item.
ItemFailureIsolated ==
    [][\A h \in Handlers :
        /\ (InItem(h) /\ hs'[h].pc = "stats_failed") =>
                /\ hs[h].pc \in {"sim", "popup", "tab_create", "tab_load"}
                /\ failedCount' = failedCount + 1
                /\ processedCount' = processedCount
                /\ isRunning'
        /\ (hs[h].pc = "stats_failed" /\ hs'[h].pc # "stats_failed") =>
                /\ "error" \in Levels(bcast')
                /\ failedCount' = failedCount
                /\ processedCount' = processedCount
                /\ IF hs[h].i < Len(queue) - 1 /\ ~stopRequested
                   THEN hs'[h].pc = "delay" /\ isRunning'
                   ELSE hs'[h].pc \in {"p2_pause", "idle"}
        /\ (hs[h].pc = "delay" /\ hs'[h].pc # "delay"
                /\ ~stopRequested /\ hs[h].i + 1 < Len(queue)) =>
                hs'[h].pc = "sim" /\ hs'[h].i = hs[h].i + 1]_vars

\* the second item is in progress after the first one failed
SecondItemAfterFailure ==
    \E h \in Handlers : InItem(h) /\ hs[h].i = 1 /\ failedCount = 1 /\ processedCount = 0

\* C9: every open auxiliary tab belongs to the item in progress.
NoTabLeak ==
    \A t \in openTabs :
        \E h \in Handlers : hs[h].tab = t /\ hs[h].pc \in {"tab_load", "scrape"}

\* C10 as written: after an empty auxiliary extraction the item goes on and
\* all four auxiliary fields of its record are empty strings.
AuxFieldsAllEmpty ==
    \A h \in Handlers :
        (hs[h].auxEmpty /\ hs[h].pc \in {"save", "submit", "backoff", "mark"}) =>
            /\ hs[h].payload.fullDescription = ""
            /\ hs[h].payload.applyEmail = ""
            /\ hs[h].payload.location = ""
            /\ hs[h].payload.experience = ""

\* C10: after an empty auxiliary extraction the item does not fail; its
\* record is built with fullDescription, location and experience empty and
\* applyEmail 'not-provided', it is in scrapedJobs once the write succeeded,
\* and it is submitted.
AuxFailureDegrades ==
    \A h \in Handlers :
        hs[h].auxEmpty =>
            /\ hs[h].pc \in {"email", "save", "submit", "backoff", "mark"}
            /\ hs[h].pc \in {"save", "submit", "backoff", "mark"} =>
                    /\ hs[h].payload.jobId = hs[h].jobId
                    /\ hs[h].payload.fullDescription = ""
                    /\ hs[h].payload.applyEmail = "not-provided"
                    /\ hs[h].payload.location = ""
                    /\ hs[h].payload.experience = ""
            /\ (hs[h].pc \in {"submit", "backoff", "mark"} /\ hs[h].saved) =>
                    \E n \in 1..Len(storage.scrapedJobs) :
                        storage.scrapedJobs[n] = hs[h].payload

\* a record built after an empty extraction has been saved and submitted
DegradedRecordSubmitted ==
    \E h \in Handlers : hs[h].auxEmpty /\ hs[h].pc = "mark" /\ hs[h].saved

\* sendJobToAPI is in progress in handler h, and returns in this step
Submitting(h) == hs[h].pc \in {"submit", "backoff", "p2_submit", "p2_backoff"}
SubmitReturns(h) == Submitting(h) /\ ~Submitting(h)'

\* C11: a submit makes at most MAX_RETRIES = 3 attempts; before attempt n
\* it has waited 1000 * 2^(k-1) ms after each of the n-1 failed attempts (1 s,
\* then 2 s); it returns at the first successful attempt or after the third
\* failure, without a wait after the last attempt and without throwing.
BoundedRetry ==
    /\ [](\A h \in Handlers :
            /\ hs[h].attempt <= 3
            /\ \A n \in 1..Len(hs[h].delays) : hs[h].delays[n] = <<1000, 2000>>[n]
            /\ hs[h].pc \in {"submit", "p2_submit"} =>
                    hs[h].attempt >= 1 /\ Len(hs[h].delays) = hs[h].attempt - 1
            /\ hs[h].pc \in {"backoff", "p2_backoff"} =>
                    hs[h].attempt < 3 /\ Len(hs[h].delays) = hs[h].attempt
            /\ Submitting(h) => hs[h].apiResult = "none"
            /\ hs[h].pc = "mark" =>
                    /\ hs[h].apiResult \in {"success", "failure"}
                    /\ Len(hs[h].delays) = hs[h].attempt - 1
                    /\ hs[h].apiResult = "failure" => hs[h].attempt = 3)
    /\ [][\A h \in Handlers :
            SubmitReturns(h) =>
                /\ hs[h].pc \in {"submit", "p2_submit"}
                /\ hs'[h].pc \notin {"stats_failed", "thrown"}
                /\ failedCount' = failedCount]_vars

\* a submit has failed three times, after waits of 1 s and 2 s, and returned
ExhaustedAfterThree ==
    \E h \in Handlers :
        /\ hs[h].pc = "mark"
        /\ hs[h].apiResult = "failure"
        /\ hs[h].attempt = 3
        /\ hs[h].delays = <<1000, 2000>>

\* C12: when the submit of an item is exhausted the run goes on and the item
\* is not failed: nothing is thrown, the item is counted as a success, the
\* record written before the submit is still in scrapedJobs, and the loop
\* goes on with the next item.
SubmitExhaustionNotFatal ==
    [][\A h \in Handlers :
        /\ (Submitting(h) /\ hs'[h].apiResult = "failure") =>
                /\ hs'[h].pc = "mark"
                /\ isRunning'
                /\ failedCount' = failedCount
                /\ storage' = storage
        /\ (hs[h].pc = "mark" /\ hs[h].apiResult = "failure" /\ hs'[h].pc # "mark") =>
                /\ processedCount' = processedCount + 1
                /\ failedCount' = failedCount
                /\ hs[h].saved =>
                        \E n \in 1..Len(storage'.scrapedJobs) :
                            storage'.scrapedJobs[n] = hs[h].payload
                /\ IF hs[h].i < Len(queue) - 1 /\ ~stopRequested
                   THEN hs'[h].pc = "delay" /\ isRunning'
                   ELSE hs'[h].pc \in {"p2_pause", "idle"}]_vars

\* the second item is in progress after the submit of the first one was
\* exhausted; the first item is counted as a success and its record is stored
SecondItemAfterExhaustion ==
    \E h \in Handlers :
        /\ hs[h].pc = "popup"
        /\ hs[h].i = 1
        /\ hs[h].apiResult = "failure"
        /\ processedCount = 1
        /\ failedCount = 0
        /\ \E n \in 1..Len(storage.scrapedJobs) :
                /\ storage.scrapedJobs[n].jobId = generateJobId(queue[1].title, queue[1].company)
                /\ storage.scrapedJobs[n].viewFullPostUrl = "https://x"

\* C13: the step in which the submit of an item is exhausted broadcasts a
\* status update of level error or warn.
SubmitFailureReported ==
    [][\A h \in Handlers :
        (Submitting(h) /\ hs'[h].pc = "mark" /\ hs'[h].apiResult = "failure") =>
            \E n \in 1..Len(bcast') : bcast'[n].level \in {"error", "warn"}]_vars

\* C14: during a run processedCount + failedCount is the number of items
\* whose per-item routine has ended, and when the loop over the n enumerated
\* items ends without a stop the sum is n.
CountersMatchItems ==
    /\ [](\A h \in Handlers :
            InRun(h) => processedCount + failedCount = hs[h].ended)
    /\ [][\A h \in Handlers :
            (InRun(h) /\ hs[h].pc \notin DownstreamPcs \cup {"p2_pause"}
                /\ hs'[h].pc = "p2_pause" /\ queue = hs'[h].enumerated) =>
                processedCount' + failedCount' = Len(hs'[h].enumerated)]_vars

\* of two items the first had a target URL and succeeded, the second has
\* none and has just been counted as failed
OneSuccessOneFailure ==
    \E h \in Handlers :
        /\ hs[h].pc = "stats_failed"
        /\ hs[h].i = 1
        /\ Len(hs[h].enumerated) = 2
        /\ hs[h].err = "no_url"
        /\ processedCount = 1
        /\ failedCount = 1

\* the record of the item in progress has been written and is not counted yet
SavedInFlight(h) ==
    IF hs[h].pc \in {"submit", "backoff", "mark"} /\ hs[h].saved THEN 1 ELSE 0

\* C15 as written: a run that started from an empty record list ends
\* phase 1 with exactly processedCount records in scrapedJobs.
RecordPerSuccess ==
    \A h \in Handlers :
        (hs[h].pc = "p2_pause" /\ hs[h].recordsAtStart = 0) =>
            Len(storage.scrapedJobs) = processedCount

\* C15: an item whose write of scrapedJobs succeeded has its record in the
\* list before it is counted as a success; an item counted as a failure
\* writes no record; and a run that started from an empty list holds one
\* record per success, less the successes whose write threw.
RecordPerSavedSuccess ==
    /\ [](\A h \in Handlers :
            /\ (hs[h].pc = "mark" /\ hs[h].saved) =>
                    \E n \in 1..Len(storage.scrapedJobs) :
                        storage.scrapedJobs[n] = hs[h].payload
            /\ hs[h].pc = "stats_failed" => ~hs[h].saved /\ hs[h].payload = NoPayload
            /\ (InRun(h) /\ hs[h].recordsAtStart = 0) =>
                    Len(storage.scrapedJobs) + hs[h].unsaved
                        = processedCount + SavedInFlight(h)
                          + (IF hs[h].pc \in {"submit", "backoff", "mark"} /\ ~hs[h].saved
                             THEN 1 ELSE 0))
    /\ [][\A h \in Handlers :
            (hs'[h].pc = "stats_failed" \/ hs[h].pc = "stats_failed") =>
                storage'.scrapedJobs = storage.scrapedJobs]_vars

\* a run that started from an empty list has ended phase 1 with one
\* success, one failure and exactly one record
OneRecordForOneSuccess ==
    \E h \in Handlers :
        /\ hs[h].pc = "p2_pause"
        /\ hs[h].recordsAtStart = 0
        /\ hs[h].unsaved = 0
        /\ processedCount = 1
        /\ failedCount = 1
        /\ Len(storage.scrapedJobs) = 1

\* position of a sub-step in the order of the claim
StepRank(pc) ==
    CASE pc = "sim" -> 1
      [] pc = "popup" -> 2
      [] pc = "tab_create" -> 3
      [] pc = "tab_load" -> 4
      [] pc = "scrape" -> 5
      [] pc = "email" -> 6
      [] pc = "save" -> 7
      [] pc \in {"submit", "backoff"} -> 8
      [] pc = "mark" -> 9
      [] OTHER -> 0

Pad(s, l, r) ==
    [k \in 1..(l + Len(s) + r) |-> IF k <= l \/ k > l + Len(s) THEN 32 ELSE s[k - l]]

\* ch in both cases when it is a letter
CaseOf(ch) ==
    IF ch >= 65 /\ ch <= 90 THEN {ch, ch + 32}
    ELSE IF ch >= 97 /\ ch <= 122 THEN {ch, ch - 32}
    ELSE {ch}

\* the strings that differ from s in the case of letters only
CaseVariants(s) ==
    {v \in [1..Len(s) -> UNION {CaseOf(s[k]) : k \in 1..Len(s)}] :
        \A k \in 1..Len(s) : v[k] \in CaseOf(s[k])}

PadCaseVariants(s) ==
    {Pad(v, l, r) : v \in CaseVariants(s), l \in 0..MaxPad, r \in 0..MaxPad}

\* the variant of s in upper case with a blank on each side
Shouted(s) ==
    Pad([k \in 1..Len(s) |-> IF s[k] >= 97 /\ s[k] <= 122 THEN s[k] - 32 ELSE s[k]], 1, 1)

\* C17: the id computed for a row is the id of every variant of its title
\* and of its company that differs in leading or trailing blanks and in
\* letter case only.
IdIgnoresPadAndCase ==
    \A h \in Handlers :
        (hs[h].pc = "sim" /\ hs[h].rawJob.title # <<>> /\ hs[h].rawJob.company # <<>>) =>
            LET t == hs[h].rawJob.title
                c == hs[h].rawJob.company
            IN  /\ hs[h].jobId = generateJobId(t, c)
                /\ \A t2 \in PadCaseVariants(t) : generateJobId(t2, c) = hs[h].jobId
                /\ \A c2 \in PadCaseVariants(c) : generateJobId(t, c2) = hs[h].jobId
                /\ generateJobId(Shouted(t), Shouted(c)) = hs[h].jobId

\* the id of the row " Ab" / "C " has been computed, and it is the id of
\* "ab" / "c"
PaddedMixedCaseRow ==
    \E h \in Handlers :
        /\ hs[h].pc = "sim"
        /\ hs[h].rawJob.title = <<32, 65, 98>>
        /\ hs[h].rawJob.company = <<67, 32>>
        /\ hs[h].jobId = generateJobId(<<97, 98>>, <<99>>)
        /\ hs[h].jobId # generateJobId(<<97>>, <<99>>)

Kinds == {"popupData", "emailData"}

\* C18: a slot holds a resolver only while the request it belongs to is
\* pending, and a step that puts a new resolver in a slot finds the slot
\* empty.
SlotFreeAtIssue ==
    /\ [](\A kind \in Kinds :
            pendingResolvers[kind] # NoReq => Awaiting(pendingResolvers[kind]) # {})
    /\ [][\A kind \in Kinds :
            (pendingResolvers'[kind] # NoReq /\ pendingResolvers'[kind] # pendingResolvers[kind])
                => pendingResolvers[kind] = NoReq]_vars

\* the detail request of the second item is in the slot after the detail
\* request of the first item timed out, its answer still outstanding
IssuedAfterTimeout ==
    \E h \in Handlers :
        /\ hs[h].pc = "popup"
        /\ hs[h].i = 1
        /\ pendingResolvers.popupData = hs[h].req
        /\ \E r \in wreq \ timers : r.kind = "popupData" /\ r.item = 0

\* C19: a run in which stop had been requested when the item loop ended or
\* was skipped is never in the downstream phase.
StopSkipsDownstream ==
    \A h \in Handlers : hs[h].stopAtPhase1End => hs[h].pc \notin DownstreamPcs

\* C20: detail data without a target URL fails the item with the
\* missing-field error: the tab step is entered only with a URL, and the
\* failing item creates no tab, issues no secondary request, writes no
\* record, is not submitted, is not added to processedIds, and the loop goes
\* on with the next item.
MissingUrlFailsItem ==
    /\ [](\A h \in Handlers :
            (hs[h].pc = "stats_failed" /\ hs[h].err = "no_url") =>
                /\ hs[h].popupData.viewFullPostUrl = ""
                /\ hs[h].tab = NoTab
                /\ hs[h].payload = NoPayload
                /\ ~hs[h].saved
                /\ hs[h].attempt = 0
                /\ \A r \in wreq \cup timers :
                        ~(r.kind = "emailData" /\ r.run = hs[h].run /\ r.item = hs[h].i))
    /\ [][\A h \in Handlers :
            /\ (hs[h].pc = "popup" /\ hs'[h].pc = "tab_create") =>
                    hs'[h].popupData.viewFullPostUrl # ""
            /\ (hs'[h].pc = "stats_failed" /\ hs'[h].err = "no_url"
                    /\ hs[h].pc # "stats_failed") =>
                    /\ hs[h].pc = "popup"
                    /\ failedCount' = failedCount + 1
                    /\ processedCount' = processedCount
                    /\ openTabs' = openTabs
                    /\ wreq' \subseteq wreq
                    /\ storage' = storage
            /\ (hs[h].pc = "stats_failed" /\ hs[h].err = "no_url"
                    /\ hs'[h].pc # "stats_failed") =>
                    /\ storage'.scrapedJobs = storage.scrapedJobs
                    /\ storage'.processedIds = storage.processedIds
                    /\ openTabs' = openTabs
                    /\ wreq' \subseteq wreq
                    /\ IF hs[h].i < Len(queue) - 1 /\ ~stopRequested
                       THEN hs'[h].pc = "delay"
                       ELSE hs'[h].pc \in {"p2_pause", "idle"}]_vars

\* the second item is in progress after the first one failed for its
\* missing URL; nothing was stored and no tab is open
SecondItemAfterMissingUrl ==
    \E h \in Handlers :
        /\ hs[h].pc = "sim"
        /\ hs[h].i = 1
        /\ hs[h].recordsAtStart = 0
        /\ failedCount = 1
        /\ storage.stats.failed = 1
        /\ storage.scrapedJobs = <<>>
        /\ storage.processedIds = <<>>
        /\ openTabs = {}
        /\ wreq = {}

WithId(jobs, jobId) == {n \in 1..Len(jobs) : jobs[n].jobId = jobId}

\* C22: scrapedJobs never holds two records with the same jobId; a step that
\* changes the list is the save of an item, which puts the item's record
\* last, drops the entry that had its jobId, and keeps every other record,
\* in the same order.
OneRecordPerId ==
    /\ [](\A n \in 1..Len(storage.scrapedJobs) :
            WithId(storage.scrapedJobs, storage.scrapedJobs[n].jobId) = {n})
    /\ [][storage'.scrapedJobs # storage.scrapedJobs =>
            \E h \in Handlers :
                LET old == storage.scrapedJobs
                    new == storage'.scrapedJobs
                    p == hs[h].payload
                    kept == {n \in 1..Len(old) : old[n].jobId # p.jobId}
                IN  /\ hs[h].pc = "save"
                    /\ Len(new) = Cardinality(kept) + 1
                    /\ new[Len(new)] = p
                    /\ \A n \in kept :
                            new[Cardinality({k \in kept : k <= n})] = old[n]]_vars

\* the record of an earlier session has been replaced by the one of this
\* run, which is now last, and the record with the other id is still there
OldRecordReplaced ==
    \E h \in Handlers :
        /\ hs[h].pc = "submit"
        /\ hs[h].payload.jobId = OldPayload.jobId
        /\ hs[h].payload # OldPayload
        /\ storage.scrapedJobs = <<OtherPayload, hs[h].payload>>

\* C23: no step of the downstream phase ends the invocation with an
\* exception that nothing catches: from a position of runResumeBuilderQueue
\* the run goes to another position of it or to idle through finishQueue.
DownstreamFailureIsolated ==
    [][\A h \in Handlers :
        (hs[h].pc \in DownstreamPcs /\ hs'[h].pc # hs[h].pc) =>
            hs'[h].pc \in DownstreamPcs \cup {"idle"}]_vars

\* C24: a build request is sent only for a record the backend listed with
\* jdResumeBuilt not true; a record of the phase has the flag true, and has
\* been passed to sendJobToAPI, only if its build request returned success;
\* a build that did not succeed leaves the records and the resubmissions as
\* they were.
BuildOnlyPending ==
    /\ [](\A h \in Handlers :
            LET hr == hs[h]
            IN  /\ hr.pc = "p2_build" =>
                        /\ ~hr.pendingJobs[hr.j + 1].jdResumeBuilt
                        /\ \E n \in 1..Len(hr.fetched) :
                                hr.fetched[n] = hr.pendingJobs[hr.j + 1]
                /\ \A k \in 1..Len(hr.pendingJobs) :
                        hr.pendingJobs[k].jdResumeBuilt <=> k \in hr.builtOk
                /\ \A job \in hr.resent :
                        /\ job.jdResumeBuilt
                        /\ \E k \in hr.builtOk : hr.pendingJobs[k] = job
                /\ \A k \in hr.builtOk : hr.pendingJobs[k] \in hr.resent
                /\ hr.pc \in {"p2_submit", "p2_backoff"} =>
                        hr.j + 1 \in hr.builtOk /\ hr.attempt >= 1)
    /\ [][\A h \in Handlers :
            (hs[h].pc = "p2_build" /\ hs'[h].pc \notin {"p2_build", "p2_submit", "idle"}) =>
                /\ hs'[h].pendingJobs = hs[h].pendingJobs
                /\ hs'[h].resent = hs[h].resent
                /\ hs'[h].attempt = 0]_vars

\* of two pending records the first failed to build and keeps its flag
\* unset, the second was built and is being resubmitted with the flag set
SecondBuiltFirstNot ==
    \E h \in Handlers :
        /\ hs[h].pc = "p2_submit"
        /\ hs[h].j = 1
        /\ hs[h].builtOk = {2}
        /\ ~hs[h].pendingJobs[1].jdResumeBuilt
        /\ hs[h].resent = {hs[h].pendingJobs[2]}

\* C25: the build request of record 0 follows the navigation to the resume
\* builder, and the build request of record j + 1 is sent in the step in
\* which the reload-wait that follows record j completes: at the build
\* request of record j the page has been reloaded j times in this phase.
ReloadBetweenBuilds ==
    /\ [](\A h \in Handlers :
            hs[h].pc \in {"p2_build", "p2_submit", "p2_backoff"} => hs[h].reloads = hs[h].j)
    /\ [][\A h \in Handlers :
            (hs'[h].pc = "p2_build" /\ hs[h].pc # "p2_build") =>
                \/ hs[h].pc = "p2_nav" /\ hs'[h].j = 0
                \/ /\ hs[h].pc = "p2_reload_wait"
                   /\ hs'[h].j = hs[h].j + 1
                   /\ hs'[h].reloads = hs[h].reloads + 1]_vars

\* the second build request has been sent, after one completed reload
SecondBuildAfterReload ==
    \E h \in Handlers : hs[h].pc = "p2_build" /\ hs[h].j = 1 /\ hs[h].reloads = 1

\* C26: whenever the last script injected into the document is the cleanup,
\* window.open, location.assign and location.replace are the page's own
\* functions and body has no data-rp-url, whatever prepares and cleanups
\* ran before it.
CleanupRestoresOriginals ==
    page.last = "cleanup" =>
        /\ page.open = "orig"
        /\ page.assign = "orig"
        /\ page.replace = "orig"
        /\ page.attr = "absent"

\* both extractions have prepared, one after the other, and both have
\* cleaned up
CleanAfterTwoPrepares ==
    /\ page.last = "cleanup"
    /\ page.twice
    /\ page.forgeable
    /\ \A a \in Extractions : ext[a].pc = "scan" /\ ext[a].prepares = 1 /\ ext[a].cleanups = 1

\* the order of the positions of one extraction
ExtRank(pc) ==
    CASE pc = "idle" -> 0
      [] pc = "prepare" -> 1
      [] pc = "click" -> 2
      [] pc = "poll" -> 3
      [] pc = "cleanup" -> 4
      [] pc = "scan" -> 5
      [] pc = "done" -> 6
      [] OTHER -> 7

\* C27: an extraction whose document is not unloaded goes through prepare,
\* click, polls and cleanup in this order; it reads the attribute at most
\* MAX_POLLS times and asks for the cleanup when it has read a URL or after
\* the last poll, so every prepare it asked for is followed by its cleanup;
\* the URL of the post is the one it read, and when it read none the scan
\* gives the first external link or leaves it empty.
InterceptionOrder ==
    /\ [](\A a \in Extractions :
            LET e == ext[a]
            IN  /\ e.pc \in {"prepare", "click", "poll"} => e.prepares = e.cleanups + 1
                /\ e.pc \in {"idle", "cleanup", "scan", "done"} => e.prepares = e.cleanups
                /\ e.pc = "poll" => e.polls < MAX_POLLS /\ e.got = "")
    /\ [][\A a \in Extractions :
            LET e == ext[a]
                f == ext'[a]
            IN  /\ (f.pc # e.pc /\ f.pc # "unloaded") =>
                        \/ ExtRank(f.pc) = ExtRank(e.pc) + 1
                        \/ e.pc = "idle" /\ f.pc = "scan"
                        \/ e.pc = "cleanup" /\ e.stage = "profile" /\ f.pc = "prepare"
                /\ (e.pc = "poll" /\ f.pc = "cleanup") =>
                        f.got # "" \/ e.polls = MAX_POLLS - 1
                /\ (e.pc = "cleanup" /\ e.stage = "post" /\ f.pc = "scan") =>
                        f.viewFullPostUrl = e.got
                /\ (e.pc = "scan" /\ f.pc = "done") =>
                        IF e.viewFullPostUrl # ""
                        THEN f.viewFullPostUrl = e.viewFullPostUrl
                        ELSE f.viewFullPostUrl \in {"", "https://link"}]_vars

\* an extraction intercepted both buttons, read no URL for the post in all
\* its polls, asked for both cleanups and took the external link
FellBackToLink ==
    \E a \in Extractions :
        /\ ext[a].pc = "done"
        /\ ext[a].prepares = 2
        /\ ext[a].cleanups = 2
        /\ ext[a].viewFullPostUrl = "https://link"

\* C28: the jobId of every record in scrapedJobs is the id computed from the
\* record's own title and company.
IdIsFingerprintOfRecord ==
    \A n \in 1..Len(storage.scrapedJobs) :
        storage.scrapedJobs[n].jobId =
            generateJobId(storage.scrapedJobs[n].title, storage.scrapedJobs[n].company)

\* C29: processedIds has no duplicates, and a step that adds an id to it is
\* the end of an item whose record sendJobToAPI submitted with success; the
\* id added is the item's.
ProcessedMeansSubmitted ==
    /\ [](\A m, n \in 1..Len(storage.processedIds) :
            storage.processedIds[m] = storage.processedIds[n] => m = n)
    /\ [][Len(storage'.processedIds) > Len(storage.processedIds) =>
            \E h \in Handlers :
                /\ hs[h].pc = "mark"
                /\ storage'.processedIds = Append(storage.processedIds, hs[h].jobId)
                /\ hs[h].apiResult = "success"]_vars

StatsFollowCounters ==
    /\ [](\A h \in Handlers :
            (InRun(h) /\ hs[h].pc # "persist") =>
                /\ storage.stats.success = hs[h].statsAtStart.success + processedCount
                /\ storage.stats.failed = hs[h].statsAtStart.failed + failedCount
                        - (IF hs[h].pc = "stats_failed" THEN 1 ELSE 0))
    /\ [][\A h \in Handlers :
            /\ (hs[h].pc = "mark" /\ hs'[h].pc # "mark") =>
                    /\ storage'.stats = [storage.stats EXCEPT !.success = @ + 1]
                    /\ processedCount' = processedCount + 1
                    /\ failedCount' = failedCount
            /\ (hs[h].pc = "stats_failed" /\ hs'[h].pc # "stats_failed") =>
                    /\ storage'.stats = [storage.stats EXCEPT !.failed = @ + 1]
                    /\ processedCount' = processedCount
                    /\ failedCount' = failedCount
            /\ (hs[h].pc \notin {"idle", "persist", "mark", "stats_failed"}) =>
                    storage'.stats = storage.stats]_vars

\* a run that started from stored statistics of an earlier session has ended
\* one item as a success and one as a failure
StoredOneEach ==
    \E h \in Handlers :
        /\ InRun(h)
        /\ hs[h].ended = 2
        /\ hs[h].pc # "stats_failed"
        /\ hs[h].statsAtStart.success > 0
        /\ processedCount = 1
        /\ failedCount = 1
        /\ storage.stats = [success |-> hs[h].statsAtStart.success + 1, failed |-> 1]

\* C32: the step that ends item i (as a success or as a failure) goes to the
\* inter-item sleep exactly when i is not the last index of the queue and
\* stopRequested is false; the sleep is entered by no other step; an item
\* whose end did not sleep is followed by no further item; and item i + 1
\* starts only when the sleep after item i is over.
DelayIffMoreAndNotStopped ==
    [][\A h \in Handlers :
        LET ends == hs[h].pc \in {"mark", "stats_failed"} /\ hs'[h].pc # hs[h].pc
        IN  /\ ends => ((hs'[h].pc = "delay")
                            <=> (hs[h].i < Len(queue) - 1 /\ ~stopRequested))
            /\ (hs'[h].pc = "delay" /\ hs[h].pc # "delay") =>
                    /\ ends
                    /\ "waiting" \in Tags(bcast')
            /\ (ends /\ hs'[h].pc # "delay") => hs'[h].pc \notin ItemPcs
            /\ (hs[h].pc = "delay" /\ hs'[h].pc # "delay") =>
                    \/ hs'[h].pc = "sim" /\ hs'[h].i = hs[h].i + 1 /\ ~stopRequested
                    \/ hs'[h].pc \notin ItemPcs /\ (stopRequested \/ hs[h].i + 1 >= Len(queue))
            /\ (hs'[h].pc \in ItemPcs /\ hs[h].pc \notin ItemPcs /\ hs'[h].i > 0) =>
                    hs[h].pc = "delay"]_vars

\* the first item ended while a stop was requested: the step that reports
\* its end also reports the stop, without the waiting notice
StoppedWithoutDelay ==
    /\ "stopped" \in Tags(bcast)
    /\ "done" \in Tags(bcast) \/ "failed" \in Tags(bcast)
    /\ "waiting" \notin Tags(bcast)
    /\ processedCount + failedCount = 1


\* ------------------------------------------------------------------
\* waitForTabComplete: the promise, its timer, its onUpdated listener and its
\* chrome.tabs.get check, against the events of the browser.

\* resolve() and reject(): the first call settles the promise, later calls
\* do nothing
resolve(x) ==
    [x EXCEPT !.outcome = IF @ = "pending" THEN "resolved" ELSE @,
              !.calls = Append(@, "resolve")]
reject(x) ==
    [x EXCEPT !.outcome = IF @ = "pending" THEN "rejected" ELSE @,
              !.calls = Append(@, "reject")]

\* clearTimeout(timeout)
clearTimeout(x) == [x EXCEPT !.timeout = IF @ = "armed" THEN "cleared" ELSE @]

\* chrome.tabs.onUpdated.removeListener(listener)
removeListener(x) == [x EXCEPT !.listener = FALSE]

\* a listener that resolves and leaves the timer armed
listenerKeepsTimer(x, id, status) ==
    IF id = x.tabId /\ status = "complete"
    THEN resolve(removeListener(x))
    ELSE x

\* function listener(id, info)
listener(x, id, status) ==
    IF id = x.tabId /\ status = "complete"
    THEN resolve(clearTimeout(removeListener(x)))
    ELSE x

\* the callback of chrome.tabs.get(tabId, ...)
getCallback(x, status) ==
    IF status = "complete"
    THEN resolve(clearTimeout(removeListener(x)))
    ELSE x

\* the callback of setTimeout(..., TAB_LOAD_TIMEOUT_MS)
timeoutCallback(x) == reject(removeListener(x))

otherQuiet ==
    UNCHANGED <<globals, pendingResolvers, hs, storage, env, hostUrl, bcast, nStart, runNo,
                page, ext, dialogs, onMessage, inflight, flow>>

\* await waitForTabComplete(t): the executor arms the timer, adds the
\* listener and asks for the tab; the caller awaits, so a call is made only
\* when the one before it has settled
WaitForTabComplete(w, t) ==
    /\ waits[w].outcome = "none"
    /\ \A v \in Waits : v < w => waits[v].outcome \in {"resolved", "rejected"}
    /\ waits' = [waits EXCEPT ![w] =
                    [IdleWait EXCEPT !.tabId = t, !.listener = TRUE, !.timeout = "armed",
                                     !.get = "pending", !.outcome = "pending"]]
    /\ UNCHANGED tabStatus
    /\ otherQuiet

\* chrome.tabs.onUpdated fires for tab t with info.status = status (or with no
\* status): every listener that is attached runs
TabUpdated(t, status) ==
    /\ tabStatus[t] # "gone"
    /\ tabStatus' = [tabStatus EXCEPT ![t] = IF status = "other" THEN @ ELSE status]
    /\ waits' = [w \in Waits |->
                    LET x == [waits[w] EXCEPT !.signalled =
                                @ \/ (waits[w].timeout = "armed" /\ waits[w].tabId = t
                                        /\ status = "complete")]
                    IN  IF waits[w].listener THEN listener(x, t, status) ELSE x]
    /\ otherQuiet

\* the tab is closed
TabRemoved(t) ==
    /\ tabStatus[t] # "gone"
    /\ tabStatus' = [tabStatus EXCEPT ![t] = "gone"]
    /\ UNCHANGED waits
    /\ otherQuiet

\* chrome.tabs.get answers: the tab as it is now, or undefined for a tab that
\* no longer exists
TabsGet(w) ==
    /\ waits[w].get = "pending"
    /\ LET status == tabStatus[waits[w].tabId]
           x == [waits[w] EXCEPT !.get = "done",
                                 !.reported = status = "complete"]
       IN  waits' = [waits EXCEPT ![w] = getCallback(x, status)]
    /\ UNCHANGED tabStatus
    /\ otherQuiet

\* TAB_LOAD_TIMEOUT_MS have passed and the timer was not cleared
TabTimeout(w) ==
    /\ waits[w].timeout = "armed"
    /\ waits' = [waits EXCEPT ![w] = timeoutCallback([@ EXCEPT !.timeout = "fired"])]
    /\ UNCHANGED tabStatus
    /\ otherQuiet

InitTab ==
    /\ queue = <<>>
    /\ isRunning = FALSE
    /\ stopRequested = FALSE
    /\ dashboardTabId = NoTabId
    /\ processedCount = 0
    /\ failedCount = 0
    /\ isProcessing = FALSE
    /\ pendingResolvers = [popupData |-> NoReq, emailData |-> NoReq]
    /\ hs = [h \in Handlers |-> IdleHandler]
    /\ storage = [queueActive |-> FALSE, scrapedJobs |-> <<>>, processedIds |-> <<>>,
                  stats |-> EmptyStats]
    /\ timers = {}
    /\ wreq = {}
    /\ jcMsgs = {}
    /\ openTabs = {}
    /\ hostUrl = "dashboard"
    /\ bcast = <<>>
    /\ nStart = 0
    /\ runNo = 0
    /\ page = FreshPage(TRUE)
    /\ ext = [a \in Extractions |-> IdleExtraction]
    /\ tabStatus \in [WaitTabs -> {"loading", "complete"}]
    /\ waits = [w \in Waits |-> IdleWait]
    /\ dialogs = {}
    /\ onMessage = [n \in Requests |-> IdleRequest]
    /\ inflight = {}
    /\ flow = [i |-> 0, pc |-> "start"]

NextTab ==
    \/ \E w \in Waits, t \in WaitTabs : WaitForTabComplete(w, t)
    \/ \E t \in WaitTabs, status \in {"loading", "complete", "other"} : TabUpdated(t, status)
    \/ \E t \in WaitTabs : TabRemoved(t)
    \/ \E w \in Waits : TabsGet(w)
    \/ \E w \in Waits : TabTimeout(w)

\* a timer that was set and not cleared fires; chrome.tabs.get answers
SpecTab ==
    /\ InitTab
    /\ [][NextTab]_vars
    /\ \A w \in Waits : WF_vars(TabTimeout(w)) /\ WF_vars(TabsGet(w))

\* C33: a waitForTabComplete call settles once and keeps its outcome; it
\* resolves in the step in which a complete signal for its tab arrives before
\* its timer fired or chrome.tabs.get reports the tab complete; it rejects
\* only in the step in which its timer fires, neither having happened; once
\* settled its listener is removed and its timer is cleared or has fired, so
\* reject and resolve are never both called by timer and listener; and every
\* call settles.
WaitSettlesOnce ==
    /\ [](\A w \in Waits :
            /\ waits[w].outcome \in {"resolved", "rejected"} =>
                    ~waits[w].listener /\ waits[w].timeout \in {"cleared", "fired"}
            /\ waits[w].outcome = "resolved" =>
                    (waits[w].signalled \/ waits[w].reported) /\ waits[w].timeout = "cleared"
            /\ waits[w].outcome = "rejected" =>
                    waits[w].timeout = "fired" /\ ~waits[w].signalled
                        /\ waits[w].calls[1] = "reject"
            /\ waits[w].outcome = "pending" =>
                    waits[w].listener /\ waits[w].timeout = "armed" /\ waits[w].calls = <<>>)
    /\ [][\A w \in Waits :
            /\ waits[w].outcome \in {"resolved", "rejected"} =>
                    waits'[w].outcome = waits[w].outcome
            /\ (waits[w].outcome = "pending" /\ waits'[w].outcome = "rejected") =>
                    ~waits[w].reported /\ ~waits'[w].reported
            /\ (waits[w].outcome = "pending"
                    /\ (waits'[w].signalled \/ waits'[w].reported)) =>
                    waits'[w].outcome = "resolved"]_vars
    /\ \A w \in Waits :
            (waits[w].outcome = "pending") ~> (waits[w].outcome \in {"resolved", "rejected"})

\* the first call was resolved by the listener and chrome.tabs.get answered
\* afterwards (a second resolve, without effect); the second call timed out
ResolvedThenRejected ==
    /\ waits[1].outcome = "resolved"
    /\ waits[1].calls = <<"resolve", "resolve">>
    /\ waits[1].signalled
    /\ waits[2].outcome = "rejected"
    /\ waits[2].get = "done"

\* C34: a JOBS_COLLECTED push changes the queue only when it answers the
\* collect request of the run that is in its settle wait; a push delivered at
\* any other moment leaves the queue as it is, and while a run is in its loop
\* the queue is the list the run found at the end of its settle wait.
QueueIsOwnCollection ==
    /\ [][\A m \in jcMsgs \ jcMsgs' :
            (\E h \in Handlers : hs[h].pc = "settle" /\ hs[h].run = m.run)
                \/ queue' = queue]_vars
    /\ [](\A h \in Handlers :
            hs[h].pc \in ItemPcs \cup {"stats_failed", "delay"} => queue = hs[h].enumerated)

\* ------------------------------------------------------------------
\* dashboard.js: the handlers of CLICK_JOB_ACTION and EXTRACT_EMAIL_DATA, the
\* detail panel they read and close, and the requests of processJobFlow.

workerQuiet ==
    UNCHANGED <<globals, pendingResolvers, hs, storage, env, hostUrl, bcast, nStart, runNo,
                page, ext, tabStatus, waits>>

\* chrome.runtime.sendMessage({ type, data })  of the handler of request n
sendMessage(n, data) == inflight \cup {[type |-> KindOf(n), data |-> data, for |-> n]}

\* a handler whose catch also runs after its then
thenAndCatch(n, data) ==
    /\ inflight' = sendMessage(n, data) \cup {[type |-> KindOf(n), data |-> [error |-> "late"], for |-> n]}
    /\ onMessage' = [onMessage EXCEPT ![n] = [pc |-> "done", sent |-> @.sent + 2]]

\* .then(data => { chrome.runtime.sendMessage({ type, data }); sendResponse({ ok: true }) })
then(n, data) ==
    /\ inflight' = sendMessage(n, data)
    /\ onMessage' = [onMessage EXCEPT ![n] = [pc |-> "done", sent |-> @.sent + 1]]

\* .catch(err => { chrome.runtime.sendMessage({ type, data: { error } }); ... })
catch(n, err) ==
    /\ inflight' = sendMessage(n, [error |-> err])
    /\ onMessage' = [onMessage EXCEPT ![n] = [pc |-> "done", sent |-> @.sent + 1]]

\* closePopup(dialog): the close button or the Escape key
closePopup(ds) == {}

\* chrome.scripting.executeScript(simulateClickInMainWorld, [rowIndex]): the
\* page opens the panel of the row, or does not; a panel that was open stays
\* or is replaced; a rejection fails the item
FlowClick(ok, opens, replaces) ==
    /\ flow.pc = "start"
    /\ IF ok
       THEN /\ dialogs' = IF opens
                          THEN (IF replaces THEN {} ELSE dialogs) \cup {flow.i}
                          ELSE dialogs
            /\ flow' = [flow EXCEPT !.pc = "clicked"]
       ELSE /\ dialogs' = dialogs
            /\ flow' = [flow EXCEPT !.pc = "end"]
    /\ UNCHANGED <<onMessage, inflight>>
    /\ workerQuiet

\* getPopupData(rowIndex) sends CLICK_JOB_ACTION; getEmailData() sends
\* EXTRACT_EMAIL_DATA: dashboard.js starts the handler
FlowRequest ==
    /\ flow.pc \in {"clicked", "aux_done"}
    /\ LET kind == IF flow.pc = "clicked" THEN "popupData" ELSE "emailData"
       IN  /\ onMessage' = [onMessage EXCEPT ![ReqId(flow.i, kind)] = [pc |-> "started", sent |-> 0]]
           /\ flow' = [flow EXCEPT !.pc = kind]
    /\ UNCHANGED <<dialogs, inflight>>
    /\ workerQuiet

\* handleJobClick: waitForPopup finds a panel or gives up; extractFromPopup
\* reads the panel it found
HandleJobClick(n, url) ==
    /\ KindOf(n) = "popupData"
    /\ onMessage[n].pc = "started"
    /\ IF dialogs = {}
       THEN catch(n, "Popup did not appear after interaction")
       ELSE \E d \in dialogs : then(n, [row |-> d, viewFullPostUrl |-> url])
    /\ UNCHANGED <<dialogs, flow>>
    /\ workerQuiet

\* handleEmailExtraction up to the click on the Email tab
HandleEmailExtraction(n, emailTab) ==
    /\ KindOf(n) = "emailData"
    /\ onMessage[n].pc = "started"
    /\ IF dialogs = {}
       THEN /\ catch(n, "Popup/Dialog not found for email extraction")
            /\ dialogs' = dialogs
       ELSE IF ~emailTab
            THEN /\ then(n, [emailSubject |-> "", emailBody |-> ""])
                 /\ dialogs' = dialogs
            ELSE /\ onMessage' = [onMessage EXCEPT ![n].pc = "render"]
                 /\ UNCHANGED <<inflight, dialogs>>
    /\ UNCHANGED flow
    /\ workerQuiet

\* handleEmailExtraction after waitForElement('textarea'): without a textarea
\* the panel is closed and the result is empty; with one the fields are read,
\* and the panel is closed (the file that ends with closePopup) or left open
\* (the file that leaves it to the outreach extraction)
EmailRender(n, textarea, closes) ==
    /\ onMessage[n].pc = "render"
    /\ IF ~textarea
       THEN /\ dialogs' = closePopup(dialogs)
            /\ then(n, [emailSubject |-> "", emailBody |-> ""])
       ELSE /\ dialogs' = IF closes THEN closePopup(dialogs) ELSE dialogs
            /\ then(n, [emailSubject |-> "S", emailBody |-> "B"])
    /\ UNCHANGED flow
    /\ workerQuiet

\* the router of background.js receives a pushed message: the promise that
\* waits for this type settles, whatever request the message answers
Deliver(m) ==
    /\ m \in inflight
    /\ inflight' = inflight \ {m}
    /\ flow' = IF flow.pc # m.type THEN flow
               ELSE IF m.type = "emailData" THEN [flow EXCEPT !.pc = "end"]
               ELSE IF "error" \in DOMAIN m.data THEN [flow EXCEPT !.pc = "end"]
               ELSE IF m.data.viewFullPostUrl = "" THEN [flow EXCEPT !.pc = "end"]
               ELSE [flow EXCEPT !.pc = "aux"]
    /\ UNCHANGED <<dialogs, onMessage>>
    /\ workerQuiet

\* the 20 s timer of getPopupData or getEmailData fires
FlowTimeout ==
    /\ flow.pc \in {"popupData", "emailData"}
    /\ flow' = [flow EXCEPT !.pc = "end"]
    /\ UNCHANGED <<dialogs, onMessage, inflight>>
    /\ workerQuiet

\* chrome.tabs.create, waitForTabComplete, the scraper and chrome.tabs.remove:
\* a tab that does not load fails the item
FlowAux(ok) ==
    /\ flow.pc = "aux"
    /\ flow' = [flow EXCEPT !.pc = IF ok THEN "aux_done" ELSE "end"]
    /\ UNCHANGED <<dialogs, onMessage, inflight>>
    /\ workerQuiet

\* the iteration of runQueue is over: the next row, if there is one
FlowNext ==
    /\ flow.pc = "end"
    /\ flow.i + 1 < MaxItems
    /\ flow' = [i |-> flow.i + 1, pc |-> "start"]
    /\ UNCHANGED <<dialogs, onMessage, inflight>>
    /\ workerQuiet

\* the steps of the handler of request n
WorkerStep(n) ==
    \/ \E url \in {"", "https://post"} : HandleJobClick(n, url)
    \/ \E emailTab \in BOOLEAN : HandleEmailExtraction(n, emailTab)
    \/ \E textarea, closes \in BOOLEAN : EmailRender(n, textarea, closes)

InitWorker ==
    /\ queue = <<>>
    /\ isRunning = FALSE
    /\ stopRequested = FALSE
    /\ dashboardTabId = NoTabId
    /\ processedCount = 0
    /\ failedCount = 0
    /\ isProcessing = FALSE
    /\ pendingResolvers = [popupData |-> NoReq, emailData |-> NoReq]
    /\ hs = [h \in Handlers |-> IdleHandler]
    /\ storage = [queueActive |-> FALSE, scrapedJobs |-> <<>>, processedIds |-> <<>>,
                  stats |-> EmptyStats]
    /\ timers = {}
    /\ wreq = {}
    /\ jcMsgs = {}
    /\ openTabs = {}
    /\ hostUrl = "dashboard"
    /\ bcast = <<>>
    /\ nStart = 0
    /\ runNo = 0
    /\ page = FreshPage(TRUE)
    /\ ext = [a \in Extractions |-> IdleExtraction]
    /\ tabStatus = [t \in WaitTabs |-> "complete"]
    /\ waits = [w \in Waits |-> IdleWait]
    /\ dialogs = {}
    /\ onMessage = [n \in Requests |-> IdleRequest]
    /\ inflight = {}
    /\ flow = [i |-> 0, pc |-> "start"]

NextWorker ==
    \/ \E ok, opens, replaces \in BOOLEAN : FlowClick(ok, opens, replaces)
    \/ FlowRequest
    \/ \E n \in Requests : WorkerStep(n)
    \/ \E m \in inflight : Deliver(m)
    \/ FlowTimeout
    \/ \E ok \in BOOLEAN : FlowAux(ok)
    \/ FlowNext

\* a handler that has started goes on to its end
SpecWorker ==
    /\ InitWorker
    /\ [][NextWorker]_vars
    /\ \A n \in Requests : WF_vars(WorkerStep(n))

\* C35: when processJobFlow starts item k + 1, and when it sends the detail
\* request of item k + 1, no panel opened for an earlier item is open.
PanelClosedBeforeNextItem ==
    (flow.i >= 1 /\ flow.pc \in {"start", "clicked", "popupData"}) =>
        \A d \in dialogs : d >= flow.i

InitStop ==
    /\ queue = <<>>
    /\ isRunning = FALSE
    /\ stopRequested = TRUE
    /\ dashboardTabId = NoTabId
    /\ processedCount = 0
    /\ failedCount = 0
    /\ isProcessing = FALSE
    /\ pendingResolvers = [popupData |-> NoReq, emailData |-> NoReq]
    /\ hs = [h \in Handlers |-> IdleHandler]
    /\ storage = [queueActive |-> FALSE, scrapedJobs |-> <<>>, processedIds |-> <<>>,
                  stats |-> EmptyStats]
    /\ timers = {}
    /\ wreq = {}
    /\ jcMsgs = {}
    /\ openTabs = {}
    /\ hostUrl = "dashboard"
    /\ bcast = <<>>
    /\ nStart = 0
    /\ runNo = 0
    /\ page = FreshPage(TRUE)
    /\ ext = [a \in Extractions |-> IdleExtraction]
    /\ tabStatus = [t \in WaitTabs |-> "complete"]
    /\ waits = [w \in Waits |-> IdleWait]
    /\ dialogs = {}
    /\ onMessage = [n \in Requests |-> IdleRequest]
    /\ inflight = {}
    /\ flow = [i |-> 0, pc |-> "start"]

SpecStop == InitStop /\ [][Next]_vars

\* C37: the step that accepts START_QUEUE leaves stopRequested false,
\* whatever it was; a run that has received no STOP_QUEUE itself never sees
\* stopRequested true, never reports that it was stopped, and when its loop
\* ends it announces the downstream phase.
StopWhileIdleForgotten ==
    /\ [](\A h \in Handlers : (InRun(h) /\ ~hs[h].stopSeen) => ~stopRequested)
    /\ [][\A h \in Handlers :
            /\ (hs[h].pc = "idle" /\ hs'[h].pc = "persist") => ~stopRequested'
            /\ (InRun(h) /\ ~hs[h].stopSeen) =>
                    /\ "stopped" \notin Tags(bcast')
                    /\ "phase1_complete" \in Tags(bcast') => "phase2_start" \in Tags(bcast')]_vars

\* the run started after the idle stop has taken both of its items to their
\* end and is in the downstream phase, no stop having come during the run
RunAfterIdleStopInPhase2 ==
    \E h \in Handlers :
        /\ hs[h].pc \in DownstreamPcs
        /\ hs[h].ended = 2
        /\ Len(hs[h].enumerated) = 2
        /\ ~hs[h].stopSeen
        /\ ~stopRequested

\* C38: a prepare leaves data-rp-url empty and a cleanup leaves it absent,
\* and a poll that reads a URL reads one that was written after the latest
\* prepare of its own extraction.
PollReadsFreshUrl ==
    [][\A a \in Extractions :
        /\ (ext[a].pc = "prepare" /\ ext'[a].pc = "click") =>
                page'.attr = "" /\ a \notin page'.stale
        /\ (ext[a].pc = "cleanup" /\ ext'[a].pc \notin {"cleanup", "unloaded"}) =>
                page'.attr = "absent"
        /\ (ext[a].pc = "poll" /\ ext'[a].got # "") =>
                /\ ext'[a].got = page.attr
                /\ a \notin page.stale]_vars

\* the prepare of an extraction found the URL of another extraction in the
\* attribute and emptied it, and its polling has read a URL written later
ReadAfterErasing ==
    \E a \in Extractions :
        /\ ext[a].erased
        /\ ext[a].pc = "cleanup"
        /\ ext[a].got = "https://post"

\* C39: an armed timer belongs to a request that is still awaited, and the
\* slot of its kind holds that request or nothing: no timer outlives the
\* settling of its request.  The step in which the timer of a request fires
\* or is cleared settles that request and no other: it resumes only the
\* invocation that awaited it, and the slot it empties held no other request.
TimerOnlyWhilePending ==
    /\ [](\A r \in timers :
            /\ Awaiting(r) # {}
            /\ pendingResolvers[r.kind] \in {r, NoReq})
    /\ [][\A r \in timers \ timers' :
            /\ \A h \in Handlers :
                    /\ h \in Awaiting(r) => hs'[h].pc \notin {"popup", "email"} \/ hs'[h].req # r
                    /\ h \notin Awaiting(r) => hs'[h] = hs[h]
            /\ \A k \in {"popupData", "emailData"} :
                    pendingResolvers'[k] # pendingResolvers[k] =>
                        k = r.kind /\ pendingResolvers[k] = r]_vars

\* the detail request of the first item timed out and its answer is still
\* owed; the detail request of the second item is pending, in the slot, with
\* its timer armed
LaterRequestPending ==
    \E r \in timers, q \in wreq \ timers :
        /\ q.kind = r.kind
        /\ q.item < r.item
        /\ pendingResolvers[r.kind] = r

====
